---- MODULE Spec2Model ----
(***************************************************************************)
(* PressurePlotImproved (PIMP): the acquisition / calculation /            *)
(* presentation pipeline of src/PIMP as a state machine.                   *)
(*                                                                         *)
(* Threads and their event queues (Qt queued connections, FIFO):           *)
(*   main thread   : widgets, SetUpWindow.setUp, Plot.plot, the slots that *)
(*                   are not decorated with pyqtSlot and were connected    *)
(*                   before moveToThread (stopDataLoop, updateLift run     *)
(*                   here; stopDataLoop is a direct call from the window). *)
(*   data thread   : workers.Data      (dataQ)                             *)
(*   calc thread   : workers.Calculations (calcQ)                          *)
(*   plot thread   : workers.Plot      (plotQ)                             *)
(*                                                                         *)
(* A float is modelled as a binary floating point number with a           *)
(* significand of PREC bits (IEEE 754 double has 53), rounded to nearest,  *)
(* ties to even, plus the value NaN.  The numbers of the model are         *)
(* integers of at least 2^(PREC-1), so that the spacing of the floats      *)
(* around them is a whole number.  This concerns the readings that are     *)
(* averaged by saveData.                                                   *)
(*                                                                         *)
(* Tap coordinates are whole multiples of 0.00001 chord (CHORD is the      *)
(* coordinate 1), the pressures of the knots are exact fractions, and the  *)
(* lift is known by its class: NaN, 0 or some other number (UNKNOWN).      *)
(***************************************************************************)
EXTENDS Integers, Sequences, FiniteSets, TLC

(***************************************************************************)
(* Bounds of the model.                                                    *)
(***************************************************************************)
\* readData calls (device query cycles) in one behaviour
MaxCycles == 3
\* user actions (setup, show plot, save, close window) in one behaviour
MaxUserActions == 3
\* largest NUM_OF_MEASSUREMENTS the model is started with
MaxMeasurements == 2
\* an event is queued to a thread only while fewer than this many wait there
MaxPending == 1
\* bits of the significand of a float
PREC == 5

(***************************************************************************)
(* Program constants.                                                      *)
(***************************************************************************)
\* number of pressure taps: np.zeros((n, 16))
SHAPE_PRESSURE == 16
\* number of environment values: np.zeros((n, 4))
SHAPE_DENSITY == 4

\* Coordinates along the chord are counted in units of 0.00001 chord:
\* the coordinate 1 (np.append(x_coordinates_top_calc, 1))
CHORD == 100000
\* x_coordinates_top_calc[-1] < 0.99
TRAILING_EDGE == 99000
\* x_coordinates_top_calc[0] > 0.00001
LEADING_EDGE == 1

\* The float "not a number"; every number of the model is far above it.
NaN == 0 - 1000000
\* A finite float whose value the model does not compute.
UNKNOWN == 0 - 3000000
\* A token of a response line that is no number ("abc").
JUNK == 0 - 2000000

Taps == 1..SHAPE_PRESSURE

\* The number of columns of df_new: the timestamp, the environment means,
\* the six values of df_additional_data, the mean pressures, the tap
\* coordinates and the two mask strings.
NumColumns == 1 + SHAPE_DENSITY + 6 + SHAPE_PRESSURE + SHAPE_PRESSURE + 2

\* self.header (DEFAULTS["HEADER"]): one name for each column of df_new,
\* no name twice; the name of a column is its number here.
Header == [c \in 1..NumColumns |-> c]

\* The file at self.path: is_file() and the names in its first line. A
\* file of no bytes has no names.
NoFile == [is_file |-> FALSE, columns |-> << >>]
EmptyFile == [is_file |-> TRUE, columns |-> << >>]
LogFile == [is_file |-> TRUE, columns |-> Header]

VARIABLES
    \* ---- main thread: widgets and user
    show_plot_button,     \* MainWindow.show_plot_button.isEnabled()
    save_data_button,     \* PlotWindow.save_data_button.isEnabled()
    plot_window_visible,  \* PlotWindow shown
    plot_init_flag,       \* Plot.plot_init_flag
    info_label,           \* PlotWindow.info_label text (tag)
    mainQ,                \* events queued to the main thread
    x_coordinates,        \* the one numpy array SetUpWindow.x_coordinates
    user_actions,         \* number of user actions so far (bounded)
    devices,              \* Device objects created by setUp: port status
    demo_mode,            \* DEFAULTS["DEMO_MODE"]
    \* ---- data thread: workers.Data
    pc,                   \* position of the data thread
    stop_flag,            \* Data.stop_flag
    dataQ,                \* events queued to the data thread
    data,                 \* fields of the Data worker
    save,                 \* locals of Data.saveData
    csv,                  \* the persisted log: rows after the header
    cycles,               \* number of readData calls so far (bounded)
    number_of_measurements, \* Data.number_of_measurements
    \* ---- calc thread: workers.Calculations
    calcQ,
    calc,
    \* ---- plot thread: workers.Plot
    plotQ,
    plot,
    \* ---- history (not program state)
    published,            \* seq numbers of the Readings sent by sendData
    calc_log,             \* seq number consumed by each Calculation run
    last_query,           \* the latest Device.getNewData call and outcome
    faulted,              \* readDataLoop ended in its except clause and no
                          \* setup has enabled the show-plot button since
    last_setup,           \* what the latest SetUpWindow.setUp read from the
                          \* check boxes and spin boxes
    \* ---- locals of Calculations.calculateLiftAndSplines while it runs
    run,
    \* ---- the animation of workers.Plot and the widgets of PlotWindow
    view,
    \* ---- the file at Data.path
    csv_file,           \* the persisted log: its header line, if any
    \* ---- the start of the program (__main__ of main.py)
    profile               \* the profile file, what readProfileData made
                          \* of it and what __main__ did then

vars == << show_plot_button, save_data_button, plot_window_visible,
           plot_init_flag, info_label, mainQ, x_coordinates, user_actions,
           devices, demo_mode, pc, stop_flag, dataQ, data, save, csv, cycles,
           number_of_measurements, calcQ, calc, plotQ, plot,
           published, calc_log, last_query, faulted, last_setup, run, view, csv_file, profile >>

(***************************************************************************)
(* Arrays.  A numpy array is a sequence; arr[mask] (boolean indexing)      *)
(* keeps the selected elements in index order.                             *)
(***************************************************************************)
Pick(arr, mask) ==
    LET idx == {i \in DOMAIN arr : mask[i]}
    IN  [k \in 1..Cardinality(idx) |->
            arr[CHOOSE i \in idx : Cardinality({j \in idx : j <= i}) = k]]

\* The smallest number of the model: floats from here on are whole numbers.
FloatBase == 2 ^ (PREC - 1)

\* A response line of n numbers.
NumLine(n, k) == [i \in 1..n |-> FloatBase + ((i - 1 + k) % SHAPE_PRESSURE)]

WithTok(line, k, tok) == [line EXCEPT ![k] = tok]

IsFinite(x) == x # NaN

(***************************************************************************)
(* serialdevices.Device.  A response is what readline() gives back for one *)
(* "?\n": io_ok = FALSE when write/readline/decode raises, else the        *)
(* tab-separated tokens of the line (none for a timed-out, empty line).    *)
(***************************************************************************)
Response(io_ok, tokens) == [io_ok |-> io_ok, tokens |-> tokens]

\* np.fromstring(text, sep="\t"): the numbers up to the first token that is
\* no number (numpy warns and returns what it has read so far).
RECURSIVE ParseLine(_)
ParseLine(tokens) ==
    IF tokens = << >> \/ Head(tokens) = JUNK
    THEN << >>
    ELSE << Head(tokens) >> \o ParseLine(Tail(tokens))

\* A mutant of getNewData: cut or zero-pad the parsed array to the expected
\* shape instead of raising.
GetNewDataResized(port, expected_shape, resp) ==
    IF port # "open" \/ ~resp.io_ok
    THEN [ok |-> FALSE, value |-> << >>, port |-> port]
    ELSE LET data_array == ParseLine(resp.tokens)
         IN  [ok |-> TRUE,
              value |-> [i \in 1..expected_shape |->
                            IF i <= Len(data_array) THEN data_array[i] ELSE 0],
              port |-> port]

\* Device.getNewData: the outcome of one call on a device whose port is
\* `port`: ok with the parsed array, or an exception; a shape mismatch
\* closes the port before raising.
GetNewData(port, expected_shape, resp) ==
    IF port # "open" \/ ~resp.io_ok
    THEN [ok |-> FALSE, value |-> << >>, port |-> port]
    ELSE LET data_array == ParseLine(resp.tokens)
         IN  IF Len(data_array) = expected_shape
             THEN [ok |-> TRUE, value |-> data_array, port |-> port]
             ELSE [ok |-> FALSE, value |-> << >>, port |-> "closed"]

ExpectedShape(which) ==
    IF which = "pressure" THEN SHAPE_PRESSURE ELSE SHAPE_DENSITY

(***************************************************************************)
(* What the devices may answer in the pipeline: a full line, a full line   *)
(* whose first value is nan, a timed-out (empty) line, an I/O or decode    *)
(* error.                                                                  *)
(***************************************************************************)
PressureResponses ==
    { Response(TRUE, NumLine(SHAPE_PRESSURE, 0)),
      Response(TRUE, WithTok(NumLine(SHAPE_PRESSURE, 0), 1, NaN)),
      Response(TRUE, << >>),
      Response(FALSE, << >>) }

DensityResponses ==
    { Response(TRUE, NumLine(SHAPE_DENSITY, 0)),
      Response(TRUE, NumLine(SHAPE_DENSITY - 1, 0)) }

\* Demo mode: demo_pressure + random * factor, demo_density + random * factor
DemoPressures == { NumLine(SHAPE_PRESSURE, 0), NumLine(SHAPE_PRESSURE, 1) }

DemoDensities == { NumLine(SHAPE_DENSITY, 0) }

(***************************************************************************)
(* Setup window inputs: per-tap enable check boxes, surface (colour) check *)
(* boxes, coordinate spin boxes (0.05, 0.10, ... by default).               *)
(***************************************************************************)
ColorCode == [i \in Taps |-> i % 2 = 1]

StatusOf(active) == [i \in Taps |-> i \in active]

CoordsDefault == [i \in Taps |-> 5000 * i]

SetupInputs ==
    { [status |-> StatusOf({1, 2, 3, 4}), color |-> ColorCode, coords |-> CoordsDefault],
      [status |-> StatusOf({2, 3, 4, 5}), color |-> ColorCode, coords |-> CoordsDefault],
      [status |-> StatusOf({1, 2, 3}),    color |-> ColorCode, coords |-> CoordsDefault],
      [status |-> StatusOf({1, 2, 3, 4}), color |-> ColorCode,
       coords |-> [CoordsDefault EXCEPT ![3] = CoordsDefault[1]]] }

\* mask_top / mask_bottom = status AND colour, status AND NOT colour
MaskTop(in) == [i \in Taps |-> in.status[i] /\ in.color[i]]

\* A mutant of mask_bottom: the enable boxes are not looked at.
MaskBottomAllTaps(in) == [i \in Taps |-> ~in.color[i]]

MaskBottom(in) == [i \in Taps |-> in.status[i] /\ ~in.color[i]]

Count(mask) == Cardinality({i \in DOMAIN mask : mask[i]})

\* np.setdiff1d(all_indices, unique_indices): the indices, counted from 0,
\* of the selected coordinates that are not the first of their value.
DuplicateIndices(coordinates) ==
    { j - 1 : j \in { m \in DOMAIN coordinates :
                         \E i \in DOMAIN coordinates :
                             i < m /\ coordinates[i] = coordinates[m] } }

\* duplicate_indices.any(): some index of the array is not 0
HasDuplicates(coordinates) ==
    \E k \in DuplicateIndices(coordinates) : k # 0

\* A mutant of the minimum length check: one tap on a surface is enough.
MinLengthOkOnePoint(in) ==
    ~(Count(MaskTop(in)) < 1 \/ Count(MaskBottom(in)) < 1)

\* np.sum(mask) < 2 on either surface: min_length_ok = False
MinLengthOk(in) == ~(Count(MaskTop(in)) < 2 \/ Count(MaskBottom(in)) < 2)

NoDuplicates(in) ==
    /\ ~HasDuplicates(Pick(in.coords, MaskTop(in)))
    /\ ~HasDuplicates(Pick(in.coords, MaskBottom(in)))

SetupAccepted(in) == NoDuplicates(in) /\ MinLengthOk(in)

(***************************************************************************)
(* Events (queued slot calls).                                             *)
(***************************************************************************)
Ev(slot, arg) == [slot |-> slot, arg |-> arg]

NoArg == << >>

\* The bound on the event queues: the sender waits for room.
Room(q) == Len(q) < MaxPending

\* The calculated lift is kept symbolically: the lift of the Reading with
\* sequence number src (0: no Reading, that is DEFAULTS["LIFT"] or the lift
\* of DEFAULTS["PRESSURE_ARRAY"]).  The number itself, as far as the model
\* computes it, is the `value` of the result that the calculation sends.
Lift(src) == [src |-> src]

\* The tuple that send_data_sig carries; seq, pressure_of and density_of
\* are history: the readData call that the Reading belongs to and the
\* calls that have obtained its two arrays.
Reading(seq, pressure_array, density_array, pressure_of, density_of) ==
    [seq |-> seq, pressure |-> pressure_array, density |-> density_array,
     pressure_of |-> pressure_of, density_of |-> density_of]

NoMask == [i \in Taps |-> FALSE]

\* DEFAULTS["PRESSURE_ARRAY"]
DefaultPressureArray == [i \in Taps |-> 0]

EmptySave ==
    [i |-> 0, num_pressures |-> << >>, num_density |-> << >>,
     num_lift |-> << >>, batch |-> << >>, stopped |-> FALSE]

\* The places of the data thread inside the while loop of readDataLoop
\* and inside the for loop of saveData
LoopPcs == {"rdl_while", "rdl_read", "rdl_send", "rdl_emit"}

BatchPcs == {"save_for", "save_read", "save_send", "save_store"}

\* start_data_sig emitted while readDataLoop is polling
WhileRunning == << "running" >>

\* self.start_data_sig.emit(): the call of readDataLoop that is put into
\* the event queue of the data thread, with a note of whether the loop
\* was polling at that time
StartRequest ==
    Ev("readDataLoop",
       IF pc \in LoopPcs /\ ~stop_flag THEN WhileRunning ELSE NoArg)

\* No setUp yet: the widgets show the defaults.
NoSetup == [status |-> << >>, color |-> << >>, coords |-> << >>]

\* calculateLiftAndSplines is not running: it has no locals.
NoRun == [at |-> "none", active |-> 0]

\* The plot option check boxes of PlotWindow: (pause, line, cp)
CheckboxTuple(pause, line, cp) == [pause |-> pause, line |-> line, cp |-> cp]

CheckboxTuples == { CheckboxTuple(a, b, c) : a \in BOOLEAN, b \in BOOLEAN,
                                             c \in BOOLEAN }

\* An attribute of Plot that no statement has assigned yet (spline_top,
\* spline_bottom), and a reading or result that nothing was drawn from.
Undefined == 0 - 1

\* A quantity as it is handed to a Line2D or an LCD: the Reading or the
\* CalculationResult it comes from and the number it was divided by.
Shown(of, by) == [of |-> of, by |-> by]

\* not divided
Raw == 1

\* Line2D.set_data([], []), and an LCD nothing was displayed on
NoData == Shown(Undefined, Raw)

\* Plot.__init__ and PlotWindow.__init__, Plot.plot: the attributes read by
\* the animation, the position of the plot thread inside
\* updateLiftAndSplines (at), the artists and the LCDs, and what the latest
\* call of animate did (mode, seen, raised).
ViewInit ==
    [checkbox_tuple |-> CheckboxTuple(FALSE, FALSE, FALSE),
     boxes |-> CheckboxTuple(FALSE, FALSE, FALSE),
     boxes_enabled |-> TRUE,
     velocity |-> 2,
     spline |-> Undefined,
     x_grid_interpolation |-> FALSE,
     wing |-> FALSE,
     at |-> 0,
     line_pressures |-> NoData,
     line_spline |-> NoData,
     line_wing |-> "none",
     lcd |-> [seq |-> Undefined, lift |-> NoData],
     mode |-> "none",
     seen |-> [seq |-> Undefined, lift |-> Undefined, denominator_cp |-> Raw],
     raised |-> FALSE,
     lines |-> 0,
     animations |-> 0]

\* A mutant of Plot.plot: the artists and the animation are made by every
\* call.
PlotArtistsEveryCall(v) ==
    [v EXCEPT !.lines = @ + 7, !.animations = @ + 1]

\* Plot.plot, the branch of plot_init_flag: the first call draws the zero
\* line and the six Line2D objects of the pressures, splines and wing
\* into the axes (lines) and startAnimation makes one FuncAnimation with
\* its timer (animations); a later call makes none.
PlotArtists(v) ==
    IF ~plot_init_flag
    THEN [v EXCEPT !.lines = @ + 7, !.animations = @ + 1]
    ELSE v

\* The attributes of Plot once Plot.plot has been called
ViewPlotted == [ViewInit EXCEPT !.lines = 7, !.animations = 1]

NoQuery ==
    [which |-> "none", io_ok |-> FALSE, tokens |-> << >>,
     ok |-> FALSE, value |-> << >>]

\* Data.__init__ (the attributes set later are empty)
DataInit ==
    [pressure_array |-> << >>, density_array |-> << >>, seq |-> 0,
     lift |-> Lift(0), configured |-> FALSE,
     mask_top |-> NoMask, mask_bottom |-> NoMask, sent |-> << >>,
     path |-> "none", dev |-> 0,
     \* history: the readData calls that have obtained the two arrays and
     \* the devices queried by the latest call, in their order
     pressure_of |-> 0, density_of |-> 0, queries |-> << >>]

(***************************************************************************)
(* The state after MainWindow.__init__: workers constructed, threads       *)
(* started, nothing set up yet.  InitCommon is the part shared by every    *)
(* specification of this module.                                           *)
(***************************************************************************)
(***************************************************************************)
(* The start of the program: __main__ reads the profile file with          *)
(* ProfileData.readProfileData and creates the main window, or shows a     *)
(* warning.  A line of the file is its first number (the x value, or the   *)
(* number of points of the Lednicer format), in units of 0.00001 chord;    *)
(* the line with the name is left out.                                     *)
(***************************************************************************)
\* the largest number of lines of a profile file after its name
MaxProfileLines == 4

\* The first numbers of the lines tried: 0.0, 0.5, 1.0, 2.0 and nan.
ProfileValues == {0, CHORD \div 2, CHORD, 2 * CHORD, NaN}

ProfileFiles ==
    UNION { [1..n -> ProfileValues] : n \in 0..MaxProfileLines }

\* a < b for floats: no comparison with nan is true.
FloatLess(a, b) == a # NaN /\ b # NaN /\ a < b

\* x[a:b], with a and b from 0 to any number.
Slice(x, a, b) ==
    LET last == IF b < Len(x) THEN b ELSE Len(x)
    IN  IF a >= last THEN << >> ELSE [i \in 1..(last - a) |-> x[a + i]]

\* x[::-1]
Reversed(x) == [i \in 1..Len(x) |-> x[Len(x) + 1 - i]]

\* A mutant of the check: coords[:-1] <= coords[1:].
NotDecreasing(coords) ==
    \A i \in 1..(Len(coords) - 1) :
        coords[i] # NaN /\ coords[i + 1] # NaN /\ coords[i] <= coords[i + 1]

\* np.all(coords[:-1] < coords[1:])
Increasing(coords) ==
    \A i \in 1..(Len(coords) - 1) : FloatLess(coords[i], coords[i + 1])

\* data[data[0] == 0.0].first_valid_index(), counted from 0; -1 for None.
FirstZero(x) ==
    IF \E i \in DOMAIN x : x[i] = 0
    THEN (CHOOSE i \in DOMAIN x : x[i] = 0 /\ \A j \in 1..(i - 1) : x[j] # 0) - 1
    ELSE 0 - 1

\* ProfileData.readProfileData on the lines after the name: the two arrays
\* of x values and the error status, or an exception that is no DataError
\* (no line, no line after the number of points, no x of 0.0 in the Selig
\* format), which nothing catches.
ReadProfileData(lines) ==
    LET lednicer_format == lines # << >> /\ FloatLess(CHORD, lines[1])
        x == IF lednicer_format THEN Tail(lines) ELSE lines
        length_top == IF lednicer_format
                      THEN lines[1] \div CHORD
                      ELSE FirstZero(x)
        x_top == IF lednicer_format
                 THEN Slice(x, 0, length_top)
                 ELSE Reversed(Slice(x, 0, length_top + 1))
        x_bottom == Slice(x, length_top, Len(x))
    IN  IF lines = << >> \/ x = << >> \/ length_top < 0
        THEN [raised |-> TRUE]
        ELSE [raised |-> FALSE, x_top |-> x_top, x_bottom |-> x_bottom,
              data_error_status |->
                  ~(Increasing(x_top) /\ Increasing(x_bottom))]

\* The program with its main window shown, started with a profile of the
\* Selig format: 1.0, 0.0, 1.0.
ProfileDefault ==
    [at |-> "main_window", lines |-> << CHORD, 0, CHORD >>,
     read |-> ReadProfileData(<< CHORD, 0, CHORD >>), workers |-> 3]

InitMainWindow ==
    /\ show_plot_button = FALSE
    /\ save_data_button = TRUE
    /\ plot_window_visible = FALSE
    /\ plot_init_flag = FALSE
    /\ info_label = "initial"
    /\ mainQ = << >>
    /\ x_coordinates = CoordsDefault
    /\ user_actions = 0
    /\ devices = << >>
    /\ stop_flag = FALSE
    /\ dataQ = << >>
    /\ csv = << >>
    /\ cycles = 0
    /\ calcQ = << >>
    /\ calc = [pressure_array |-> DefaultPressureArray, seq |-> 0,
               configured |-> FALSE,
               mask_top |-> NoMask, mask_bottom |-> NoMask, sent |-> << >>,
               x_coordinates_top |-> << >>, x_coordinates_bottom |-> << >>,
               lift |-> Lift(0)]
    /\ plotQ = << >>
    /\ plot = [pressure_array |-> DefaultPressureArray,
               density_array |-> << >>, seq |-> 0,
               lift |-> Lift(0), lift_data_available |-> FALSE,
               configured |-> FALSE,
               mask_top |-> NoMask, mask_bottom |-> NoMask, sent |-> << >>,
               x_coordinates_top |-> << >>, x_coordinates_bottom |-> << >>]
    /\ published = << >>
    /\ calc_log = << >>
    /\ last_query = NoQuery
    /\ faulted = FALSE
    /\ last_setup = NoSetup
    /\ run = NoRun
    /\ view = ViewInit
    /\ csv_file = NoFile

InitCommon ==
    /\ InitMainWindow
    /\ profile = ProfileDefault

Init ==
    /\ InitCommon
    /\ demo_mode \in BOOLEAN
    /\ number_of_measurements \in 1..MaxMeasurements
    /\ pc = "idle"
    /\ data = DataInit
    /\ save = EmptySave

(***************************************************************************)
(* Main thread: user actions.                                              *)
(***************************************************************************)
\* SetUpWindow.setUp, the "OK" of the setup window.  conn_ok: both
\* serialdevices.Device constructors succeed; p_resp, d_resp: what the two
\* devices answer to the probe query.
SetUp(in, conn_ok, p_resp, d_resp) ==
    LET mask_top    == MaskTop(in)
        mask_bottom == MaskBottom(in)
        \* (mask_top, mask_bottom, x_coordinates): the third element is the
        \* array itself, kept in the variable x_coordinates; `sent` is what
        \* the array held when the tuple was emitted
        setup_data  == [mask_top |-> mask_top, mask_bottom |-> mask_bottom,
                        sent |-> in.coords]
        p == GetNewData("open", SHAPE_PRESSURE, p_resp)
        d == GetNewData("open", SHAPE_DENSITY, d_resp)
        probe_ok == p.ok /\ d.ok
        \* probed: both devices answered the probe query (history)
        new_devices == [pressure |-> p.port,
                        density |-> IF p.ok THEN d.port ELSE "open",
                        probed |-> probe_ok]
    IN
    /\ user_actions < MaxUserActions
    /\ user_actions' = user_actions + 1
    /\ last_setup' = in
    \* the spin box values are written into the shared array in place
    /\ x_coordinates' = in.coords
    /\ IF ~SetupAccepted(in)
       THEN /\ show_plot_button' = FALSE
            /\ UNCHANGED << plotQ, dataQ, calcQ, devices >>
       ELSE /\ Room(plotQ) /\ Room(calcQ) /\ Room(dataQ)
            /\ plotQ' = Append(plotQ, Ev("updateSetupData", setup_data))
            /\ calcQ' = Append(calcQ, Ev("updateSetupData", setup_data))
            /\ IF demo_mode
               THEN /\ dataQ' = dataQ \o << Ev("updateSetupData", setup_data),
                                            Ev("updatePath", NoArg) >>
                    /\ show_plot_button' = TRUE
                    /\ UNCHANGED devices
               ELSE IF ~conn_ok
               THEN /\ dataQ' = dataQ \o << Ev("updateSetupData", setup_data),
                                            Ev("updatePath", NoArg) >>
                    /\ show_plot_button' = FALSE
                    /\ UNCHANGED devices
               ELSE /\ devices' = Append(devices, new_devices)
                    /\ dataQ' = dataQ \o
                          << Ev("updateSetupData", setup_data),
                             Ev("updatePath", NoArg),
                             Ev("updateSerialConnections", Len(devices) + 1) >>
                    /\ show_plot_button' = probe_ok
    \* a setup that enables the show-plot button ends the faulted phase
    /\ faulted' = (faulted /\ ~show_plot_button')
    /\ UNCHANGED << save_data_button, plot_window_visible, plot_init_flag,
                    info_label, mainQ, demo_mode, pc, stop_flag, data, save,
                    csv, cycles, number_of_measurements, calc, plot,
                    published, calc_log, last_query, run, view, csv_file, profile >>

\* MainWindow.show_plot_button clicked -> show_plot_sig -> Plot.plot
ShowPlot ==
    /\ show_plot_button
    /\ user_actions < MaxUserActions
    /\ Room(dataQ)
    /\ user_actions' = user_actions + 1
    /\ dataQ' = Append(dataQ, StartRequest)
    /\ plot_window_visible' = TRUE
    /\ view' = PlotArtists(view)
    /\ IF ~plot_init_flag
       THEN /\ plot_init_flag' = TRUE
            /\ UNCHANGED << info_label, save_data_button >>
       ELSE /\ info_label' = "default"
            /\ save_data_button' = TRUE
            /\ UNCHANGED plot_init_flag
    /\ UNCHANGED << show_plot_button, mainQ, x_coordinates, devices,
                    demo_mode, pc, stop_flag, data, save, csv, cycles,
                    number_of_measurements, calcQ, calc, plotQ, plot,
                    published, calc_log, last_query, faulted, last_setup, run, csv_file, profile >>

\* Data.stopDataLoop
StopDataLoop == stop_flag' = TRUE

\* PlotWindow.saveDataSignal, the save button
SaveDataSignal ==
    /\ plot_window_visible
    /\ save_data_button
    /\ user_actions < MaxUserActions
    /\ Room(dataQ)
    /\ user_actions' = user_actions + 1
    /\ StopDataLoop
    /\ dataQ' = Append(dataQ, Ev("saveData", NoArg))
    /\ UNCHANGED << show_plot_button, save_data_button, plot_window_visible,
                    plot_init_flag, info_label, mainQ, x_coordinates,
                    devices, demo_mode, pc, data, save, csv, cycles,
                    number_of_measurements, calcQ, calc, plotQ, plot,
                    published, calc_log, last_query, faulted, last_setup, run, view, csv_file, profile >>

\* PlotWindow.closeEvent
ClosePlotWindow ==
    /\ plot_window_visible
    /\ user_actions < MaxUserActions
    /\ user_actions' = user_actions + 1
    /\ StopDataLoop
    /\ plot_window_visible' = FALSE
    /\ save' = IF pc \in BatchPcs THEN [save EXCEPT !.stopped = TRUE] ELSE save
    /\ UNCHANGED << show_plot_button, save_data_button, plot_init_flag,
                    info_label, mainQ, x_coordinates, devices, demo_mode,
                    pc, dataQ, data, csv, cycles,
                    number_of_measurements, calcQ, calc, plotQ, plot,
                    published, calc_log, last_query, faulted, last_setup, run, view, csv_file, profile >>

(***************************************************************************)
(* Main thread: slots called through its event queue.                      *)
(***************************************************************************)
\* MainWindow.switchPlotButton, queued from the data thread
SwitchPlotButton ==
    /\ mainQ # << >>
    /\ Head(mainQ).slot = "switchPlotButton"
    /\ show_plot_button' = Head(mainQ).arg
    /\ mainQ' = Tail(mainQ)
    /\ UNCHANGED << save_data_button, plot_window_visible, plot_init_flag,
                    info_label, x_coordinates, user_actions, devices,
                    demo_mode, pc, stop_flag, dataQ, data, save, csv, cycles,
                    number_of_measurements, calcQ, calc, plotQ, plot,
                    published, calc_log, last_query, faulted, last_setup, run, view, csv_file, profile >>

\* PlotWindow.switchSaveButtonStatus, queued from the data thread
SwitchSaveButtonStatus ==
    /\ mainQ # << >>
    /\ Head(mainQ).slot = "switchSaveButtonStatus"
    /\ save_data_button' = Head(mainQ).arg
    /\ mainQ' = Tail(mainQ)
    /\ UNCHANGED << show_plot_button, plot_window_visible, plot_init_flag,
                    info_label, x_coordinates, user_actions, devices,
                    demo_mode, pc, stop_flag, dataQ, data, save, csv, cycles,
                    number_of_measurements, calcQ, calc, plotQ, plot,
                    published, calc_log, last_query, faulted, last_setup, run, view, csv_file, profile >>

\* Data.updateLift, queued from the calc thread
UpdateLift ==
    /\ mainQ # << >>
    /\ Head(mainQ).slot = "updateLift"
    /\ data' = [data EXCEPT !.lift = Head(mainQ).arg.lift]
    /\ mainQ' = Tail(mainQ)
    /\ UNCHANGED << show_plot_button, save_data_button, plot_window_visible,
                    plot_init_flag, info_label, x_coordinates, user_actions,
                    devices, demo_mode, pc, stop_flag, dataQ, save, csv,
                    cycles, number_of_measurements, calcQ, calc, plotQ, plot,
                    published, calc_log, last_query, faulted, last_setup, run, view, csv_file, profile >>

(***************************************************************************)
(* Data thread: workers.Data.                                              *)
(***************************************************************************)
\* The slots of Data that only store their argument.
DataUpdateSetupData ==
    /\ pc = "idle" /\ dataQ # << >>
    /\ Head(dataQ).slot = "updateSetupData"
    /\ data' = [data EXCEPT !.configured = TRUE,
                            !.mask_top = Head(dataQ).arg.mask_top,
                            !.mask_bottom = Head(dataQ).arg.mask_bottom,
                            !.sent = Head(dataQ).arg.sent]
    /\ dataQ' = Tail(dataQ)
    /\ UNCHANGED << show_plot_button, save_data_button, plot_window_visible,
                    plot_init_flag, info_label, mainQ, x_coordinates,
                    user_actions, devices, demo_mode, pc, stop_flag, save,
                    csv, cycles, number_of_measurements, calcQ, calc, plotQ,
                    plot, published, calc_log, last_query, faulted, last_setup, run, view, csv_file, profile >>

DataUpdatePath ==
    /\ pc = "idle" /\ dataQ # << >>
    /\ Head(dataQ).slot = "updatePath"
    /\ data' = [data EXCEPT !.path = "set"]
    /\ dataQ' = Tail(dataQ)
    /\ UNCHANGED << show_plot_button, save_data_button, plot_window_visible,
                    plot_init_flag, info_label, mainQ, x_coordinates,
                    user_actions, devices, demo_mode, pc, stop_flag, save,
                    csv, cycles, number_of_measurements, calcQ, calc, plotQ,
                    plot, published, calc_log, last_query, faulted, last_setup, run, view, csv_file, profile >>

DataUpdateSerialConnections ==
    /\ pc = "idle" /\ dataQ # << >>
    /\ Head(dataQ).slot = "updateSerialConnections"
    /\ data' = [data EXCEPT !.dev = Head(dataQ).arg]
    /\ dataQ' = Tail(dataQ)
    /\ UNCHANGED << show_plot_button, save_data_button, plot_window_visible,
                    plot_init_flag, info_label, mainQ, x_coordinates,
                    user_actions, devices, demo_mode, pc, stop_flag, save,
                    csv, cycles, number_of_measurements, calcQ, calc, plotQ,
                    plot, published, calc_log, last_query, faulted, last_setup, run, view, csv_file, profile >>

\* A mutant of readData: an error of the density device is swallowed and
\* the density of the call before is kept.
ReadDataKeepsOldDensity(p_resp, d_resp) ==
    IF demo_mode
    THEN [ok |-> TRUE, pressure_array |-> p_resp.tokens,
          density_array |-> d_resp.tokens, devices |-> devices,
          queries |-> << >>, pressure_new |-> TRUE, density_new |-> TRUE]
    ELSE IF data.dev = 0
    THEN [ok |-> FALSE, pressure_array |-> data.pressure_array,
          density_array |-> data.density_array, devices |-> devices,
          queries |-> << >>, pressure_new |-> FALSE, density_new |-> FALSE]
    ELSE LET dev == devices[data.dev]
             p == GetNewData(dev.pressure, SHAPE_PRESSURE, p_resp)
             d == GetNewData(dev.density, SHAPE_DENSITY, d_resp)
         IN  IF ~p.ok
             THEN [ok |-> FALSE, pressure_array |-> data.pressure_array,
                   density_array |-> data.density_array,
                   devices |-> [devices EXCEPT ![data.dev].pressure = p.port],
                   queries |-> << "pressure" >>,
                   pressure_new |-> FALSE, density_new |-> FALSE]
             ELSE [ok |-> TRUE, pressure_array |-> p.value,
                   density_array |-> IF d.ok THEN d.value
                                     ELSE data.density_array,
                   devices |-> [devices EXCEPT ![data.dev].density = d.port],
                   queries |-> << "pressure", "density" >>,
                   pressure_new |-> TRUE, density_new |-> d.ok]

\* Data.readData: the outcome of one call.  Not in demo mode the pressure
\* device is queried first and the density device only if that succeeded.
\* (The text of the demo label, set in demo mode, is not part of the model.)
ReadData(p_resp, d_resp) ==
    IF demo_mode
    THEN [ok |-> TRUE, pressure_array |-> p_resp.tokens,
          density_array |-> d_resp.tokens, devices |-> devices,
          queries |-> << >>, pressure_new |-> TRUE, density_new |-> TRUE]
    ELSE IF data.dev = 0
    THEN [ok |-> FALSE, pressure_array |-> data.pressure_array,
          density_array |-> data.density_array, devices |-> devices,
          queries |-> << >>, pressure_new |-> FALSE, density_new |-> FALSE]
    ELSE LET dev == devices[data.dev]
             p == GetNewData(dev.pressure, SHAPE_PRESSURE, p_resp)
             d == GetNewData(dev.density, SHAPE_DENSITY, d_resp)
         IN  IF ~p.ok
             THEN [ok |-> FALSE, pressure_array |-> data.pressure_array,
                   density_array |-> data.density_array,
                   devices |-> [devices EXCEPT ![data.dev].pressure = p.port],
                   queries |-> << "pressure" >>,
                   pressure_new |-> FALSE, density_new |-> FALSE]
             ELSE [ok |-> d.ok, pressure_array |-> p.value,
                   density_array |-> IF d.ok THEN d.value
                                     ELSE data.density_array,
                   devices |-> [devices EXCEPT ![data.dev].density = d.port],
                   queries |-> << "pressure", "density" >>,
                   pressure_new |-> TRUE, density_new |-> d.ok]

\* What the devices (or the demo generator) may answer to one readData.
ReadInputs ==
    IF demo_mode
    THEN { << Response(TRUE, p), Response(TRUE, d) >> :
              p \in DemoPressures, d \in DemoDensities }
    ELSE PressureResponses \X DensityResponses

\* The effect of readData on the Data worker and the devices.
DoReadData(r) ==
    /\ cycles < MaxCycles
    /\ Room(plotQ) /\ Room(mainQ)
    /\ cycles' = cycles + 1
    /\ devices' = r.devices
    /\ data' = [data EXCEPT
                  !.pressure_array = r.pressure_array,
                  !.density_array = r.density_array,
                  !.seq = IF r.ok THEN cycles + 1 ELSE @,
                  !.pressure_of = IF r.pressure_new THEN cycles + 1 ELSE @,
                  !.density_of = IF r.density_new THEN cycles + 1 ELSE @,
                  !.queries = r.queries]

\* Data.sendData: send_data_sig -> Plot.updateData, Calculations.updateData
SendData ==
    LET reading == Reading(data.seq, data.pressure_array, data.density_array,
                           data.pressure_of, data.density_of)
    IN  /\ Room(plotQ) /\ Room(calcQ)
        /\ plotQ' = Append(plotQ, Ev("updateData", reading))
        /\ calcQ' = Append(calcQ, Ev("updateData", reading))
        /\ published' = Append(published, data.seq)

\* calc_lift_splines_sig.emit()
EmitCalc ==
    /\ Room(calcQ)
    /\ calcQ' = Append(calcQ, Ev("calculateLiftAndSplines", NoArg))

\* Data.readDataLoop, called through the event queue
ReadDataLoop ==
    /\ pc = "idle" /\ dataQ # << >>
    /\ Head(dataQ).slot = "readDataLoop"
    /\ dataQ' = Tail(dataQ)
    /\ stop_flag' = FALSE
    /\ pc' = "rdl_while"
    /\ UNCHANGED << show_plot_button, save_data_button, plot_window_visible,
                    plot_init_flag, info_label, mainQ, x_coordinates,
                    user_actions, devices, demo_mode, data, save, csv,
                    cycles, number_of_measurements, calcQ, calc, plotQ, plot,
                    published, calc_log, last_query, faulted, last_setup, run, view, csv_file, profile >>

\* A mutant of the loop condition: the stop flag is not looked at.
RdlWhileIgnoresStop ==
    /\ pc = "rdl_while"
    /\ pc' = "rdl_read"
    /\ UNCHANGED << show_plot_button, save_data_button, plot_window_visible,
                    plot_init_flag, info_label, mainQ, x_coordinates,
                    user_actions, devices, demo_mode, stop_flag, dataQ, data,
                    save, csv, cycles, number_of_measurements, calcQ, calc,
                    plotQ, plot, published, calc_log, last_query, faulted, last_setup, run, view, csv_file, profile >>

\* while self.stop_flag == False
RdlWhile ==
    /\ pc = "rdl_while"
    /\ pc' = IF stop_flag THEN "idle" ELSE "rdl_read"
    /\ UNCHANGED << show_plot_button, save_data_button, plot_window_visible,
                    plot_init_flag, info_label, mainQ, x_coordinates,
                    user_actions, devices, demo_mode, stop_flag, dataQ, data,
                    save, csv, cycles, number_of_measurements, calcQ, calc,
                    plotQ, plot, published, calc_log, last_query, faulted, last_setup, run, view, csv_file, profile >>

\* A mutant of the except clause of readDataLoop: the save button is left
\* as it is.
RdlReadKeepsSaveButton ==
    /\ pc = "rdl_read"
    /\ \E in \in ReadInputs :
         LET r == ReadData(in[1], in[2])
         IN  /\ DoReadData(r)
             /\ IF r.ok
                THEN /\ pc' = "rdl_send"
                     /\ UNCHANGED << plotQ, mainQ, faulted, last_setup, run, view, csv_file, profile >>
                ELSE /\ pc' = "idle"
                     /\ faulted' = TRUE
                     /\ plotQ' = Append(plotQ, Ev("updateInfoLabel", "error"))
                     /\ mainQ' = Append(mainQ, Ev("switchPlotButton", FALSE))
    /\ UNCHANGED << show_plot_button, save_data_button, plot_window_visible,
                    plot_init_flag, info_label, x_coordinates, user_actions,
                    demo_mode, stop_flag, dataQ, save, csv,
                    number_of_measurements, calcQ, calc, plot, published,
                    calc_log, last_query, last_setup, run, view, csv_file, profile >>

\* self.readData() in the loop; an exception ends readDataLoop in its
\* except clause.
RdlRead ==
    /\ pc = "rdl_read"
    /\ \E in \in ReadInputs :
         LET r == ReadData(in[1], in[2])
         IN  /\ DoReadData(r)
             /\ IF r.ok
                THEN /\ pc' = "rdl_send"
                     /\ UNCHANGED << plotQ, mainQ, faulted, last_setup, run, view, csv_file, profile >>
                ELSE /\ pc' = "idle"
                     /\ faulted' = TRUE
                     /\ plotQ' = Append(plotQ, Ev("updateInfoLabel", "error"))
                     /\ mainQ' = mainQ \o
                           << Ev("switchPlotButton", FALSE),
                              Ev("switchSaveButtonStatus", FALSE) >>
    /\ UNCHANGED << show_plot_button, save_data_button, plot_window_visible,
                    plot_init_flag, info_label, x_coordinates, user_actions,
                    demo_mode, stop_flag, dataQ, save, csv,
                    number_of_measurements, calcQ, calc, plot, published,
                    calc_log, last_query, last_setup, run, view, csv_file, profile >>

\* self.sendData() in the loop
RdlSend ==
    /\ pc = "rdl_send"
    /\ SendData
    /\ pc' = "rdl_emit"
    /\ UNCHANGED << show_plot_button, save_data_button, plot_window_visible,
                    plot_init_flag, info_label, mainQ, x_coordinates,
                    user_actions, devices, demo_mode, stop_flag, dataQ, data,
                    save, csv, cycles, number_of_measurements, calc, plot,
                    calc_log, last_query, faulted, last_setup, run, view, csv_file, profile >>

\* self.calc_lift_splines_sig.emit() in the loop
RdlEmit ==
    /\ pc = "rdl_emit"
    /\ EmitCalc
    /\ pc' = "rdl_while"
    /\ UNCHANGED << show_plot_button, save_data_button, plot_window_visible,
                    plot_init_flag, info_label, mainQ, x_coordinates,
                    user_actions, devices, demo_mode, stop_flag, dataQ, data,
                    save, csv, cycles, number_of_measurements, calc, plotQ,
                    plot, published, calc_log, last_query, faulted, last_setup, run, view, csv_file, profile >>

(***************************************************************************)
(* Data.saveData.                                                          *)
(***************************************************************************)
\* The spacing of the floats around v >= FloatBase.
RECURSIVE UlpFrom(_, _)
UlpFrom(v, u) == IF v < u * (2 ^ PREC) THEN u ELSE UlpFrom(v, 2 * u)

Ulp(v) == UlpFrom(v, 1)

\* The float nearest to num/den, ties to the even significand.
RoundToFloat(num, den) ==
    LET q == num \div den
        u == Ulp(q)
        lower == q - (q % u)
        twice_rest == 2 * (num - lower * den)
        up == \/ twice_rest > u * den
              \/ twice_rest = u * den /\ (lower \div u) % 2 = 1
    IN  IF up THEN lower + u ELSE lower

\* a + b and s / n in floating point
FAdd(a, b) == RoundToFloat(a + b, 1)

FDiv(s, n) == RoundToFloat(s, n)

\* np.add.reduce along the batch: the samples are added one after another.
RECURSIVE FSum(_)
FSum(xs) ==
    IF Len(xs) = 1
    THEN xs[1]
    ELSE FAdd(FSum(SubSeq(xs, 1, Len(xs) - 1)), xs[Len(xs)])

\* A mutant of the mean: the sum is divided by one sample too many.
MeanOffByOne(xs) ==
    IF \E k \in DOMAIN xs : ~IsFinite(xs[k])
    THEN NaN
    ELSE FDiv(FSum(xs), Len(xs) + 1)

\* np.mean of a vector of floats: the sum divided by the number of samples;
\* NaN as soon as one sample is NaN.
Mean(xs) ==
    IF \E k \in DOMAIN xs : ~IsFinite(xs[k])
    THEN NaN
    ELSE FDiv(FSum(xs), Len(xs))

\* np.mean(rows, axis=0): the mean of every column.
MeanAxis0(rows, width) ==
    [j \in 1..width |-> Mean([k \in DOMAIN rows |-> rows[k][j]])]

\* "".join(map(str, mask.astype(np.int_)))
MaskString(mask) == [i \in DOMAIN mask |-> IF mask[i] THEN "1" ELSE "0"]

\* np.zeros(n): the lift samples before they are filled in
ZeroLift == Lift(0 - 1)

\* np.zeros((n, 16)), np.zeros((n, 4)), np.zeros(n)
ZeroArrays ==
    [i |-> 0,
     num_pressures |-> [k \in 1..number_of_measurements |->
                           [j \in 1..SHAPE_PRESSURE |-> 0]],
     num_density |-> [k \in 1..number_of_measurements |->
                           [j \in 1..SHAPE_DENSITY |-> 0]],
     num_lift |-> [k \in 1..number_of_measurements |-> ZeroLift],
     batch |-> << >>, stopped |-> FALSE]

\* A mutant of saveData: the slot runs as soon as it is called, also while
\* readDataLoop is still running.
SaveDataWhileLooping ==
    /\ pc \in {"idle", "rdl_while", "rdl_read", "rdl_send", "rdl_emit"}
    /\ dataQ # << >>
    /\ Head(dataQ).slot = "saveData"
    /\ dataQ' = Tail(dataQ)
    /\ save' = ZeroArrays
    /\ pc' = "save_for"
    /\ UNCHANGED << show_plot_button, save_data_button, plot_window_visible,
                    plot_init_flag, info_label, mainQ, x_coordinates,
                    user_actions, devices, demo_mode, stop_flag, data, csv,
                    cycles, number_of_measurements, calcQ, calc, plotQ, plot,
                    published, calc_log, last_query, faulted, last_setup, run, view, csv_file, profile >>

\* Data.saveData, called through the event queue: the arrays are created.
SaveData ==
    /\ pc = "idle" /\ dataQ # << >>
    /\ Head(dataQ).slot = "saveData"
    /\ dataQ' = Tail(dataQ)
    /\ save' = ZeroArrays
    /\ pc' = "save_for"
    /\ UNCHANGED << show_plot_button, save_data_button, plot_window_visible,
                    plot_init_flag, info_label, mainQ, x_coordinates,
                    user_actions, devices, demo_mode, stop_flag, data, csv,
                    cycles, number_of_measurements, calcQ, calc, plotQ, plot,
                    published, calc_log, last_query, faulted, last_setup, run, view, csv_file, profile >>

\* A mutant of the for loop of saveData: range(n - 1).
SaveForOneShort ==
    /\ pc = "save_for"
    /\ IF save.i < number_of_measurements - 1
       THEN /\ EmitCalc
            /\ pc' = "save_read"
       ELSE /\ pc' = "save_write"
            /\ UNCHANGED calcQ
    /\ UNCHANGED << show_plot_button, save_data_button, plot_window_visible,
                    plot_init_flag, info_label, mainQ, x_coordinates,
                    user_actions, devices, demo_mode, stop_flag, dataQ, data,
                    save, csv, cycles, number_of_measurements, calc, plotQ,
                    plot, published, calc_log, last_query, faulted, last_setup, run, view, csv_file, profile >>

\* for i in range(n): self.calc_lift_splines_sig.emit()
SaveFor ==
    /\ pc = "save_for"
    /\ IF save.i < number_of_measurements
       THEN /\ EmitCalc
            /\ pc' = "save_read"
       ELSE /\ pc' = "save_write"
            /\ UNCHANGED calcQ
    /\ UNCHANGED << show_plot_button, save_data_button, plot_window_visible,
                    plot_init_flag, info_label, mainQ, x_coordinates,
                    user_actions, devices, demo_mode, stop_flag, dataQ, data,
                    save, csv, cycles, number_of_measurements, calc, plotQ,
                    plot, published, calc_log, last_query, faulted, last_setup, run, view, csv_file, profile >>

\* self.readData() in the batch; an exception ends the try block of
\* saveData in its except clause.
SaveRead ==
    /\ pc = "save_read"
    /\ \E in \in ReadInputs :
         LET r == ReadData(in[1], in[2])
         IN  /\ DoReadData(r)
             /\ IF r.ok
                THEN /\ pc' = "save_send"
                     /\ UNCHANGED plotQ
                ELSE /\ pc' = "save_resume"
                     /\ plotQ' = Append(plotQ,
                                        Ev("updateInfoLabel", "save_error"))
    /\ UNCHANGED << show_plot_button, save_data_button, plot_window_visible,
                    plot_init_flag, info_label, mainQ, x_coordinates,
                    user_actions, demo_mode, stop_flag, dataQ, save, csv,
                    number_of_measurements, calcQ, calc, plot, published,
                    calc_log, last_query, faulted, last_setup, run, view, csv_file, profile >>

\* self.sendData() in the batch
SaveSend ==
    /\ pc = "save_send"
    /\ SendData
    /\ pc' = "save_store"
    /\ UNCHANGED << show_plot_button, save_data_button, plot_window_visible,
                    plot_init_flag, info_label, mainQ, x_coordinates,
                    user_actions, devices, demo_mode, stop_flag, dataQ, data,
                    save, csv, cycles, number_of_measurements, calc, plot,
                    calc_log, last_query, faulted, last_setup, run, view, csv_file, profile >>

\* num_pressures[i, :] = ...; num_density[i, :] = ...; num_lift[i] = self.lift
StoreSample ==
    [save EXCEPT !.num_pressures[save.i + 1] = data.pressure_array,
                 !.num_density[save.i + 1] = data.density_array,
                 !.num_lift[save.i + 1] = data.lift,
                 !.batch = Append(@, data.seq),
                 !.i = @ + 1]

SaveStore ==
    /\ pc = "save_store"
    /\ save' = StoreSample
    /\ pc' = "save_for"
    /\ UNCHANGED << show_plot_button, save_data_button, plot_window_visible,
                    plot_init_flag, info_label, mainQ, x_coordinates,
                    user_actions, devices, demo_mode, stop_flag, dataQ, data,
                    csv, cycles, number_of_measurements, calcQ, calc, plotQ,
                    plot, published, calc_log, last_query, faulted, last_setup, run, view, csv_file, profile >>

\* The record assembled from the batch: the data frames that df_new is
\* made of. The timestamp, the angle, the velocity, the width and the
\* elapsed time are not computed, a name stands for each of them.
NewRow ==
    [time |-> "now_time",
     density_mean |-> MeanAxis0(save.num_density, SHAPE_DENSITY),
     angle |-> "angle",
     velocity |-> "velocity",
     \* np.mean(num_lift): the lift is symbolic, the samples stand for it
     lift_mean |-> save.num_lift,
     width |-> "width",
     number_of_measurements |-> number_of_measurements,
     total_time_measurements |-> "total_time_measurements",
     pressures_mean |-> MeanAxis0(save.num_pressures, SHAPE_PRESSURE),
     x_coordinates |-> x_coordinates,
     mask_top |-> MaskString(data.mask_top),
     mask_bottom |-> MaskString(data.mask_bottom)]

\* A mutant of the order of the columns: the tap coordinates before the
\* mean pressures.
ColumnsCoordsFirst(df) ==
    << df.time >> \o df.density_mean
    \o << df.angle, df.velocity, df.lift_mean, df.width,
          df.number_of_measurements, df.total_time_measurements >>
    \o df.x_coordinates \o df.pressures_mean
    \o << df.mask_top, df.mask_bottom >>

\* pd.concat((df_time, df_density, df_additional_data, df_pressures,
\* df_x_coords, df_x_masks), axis=1): the cells of the one row of df_new
\* from left to right.
Columns(df) ==
    << df.time >> \o df.density_mean
    \o << df.angle, df.velocity, df.lift_mean, df.width,
          df.number_of_measurements, df.total_time_measurements >>
    \o df.pressures_mean \o df.x_coordinates
    \o << df.mask_top, df.mask_bottom >>

\* The columns of the two mask strings.
MaskColumns == {NumColumns - 1, NumColumns}

\* A line of the file: its cells, and the Readings it was made from
\* (history).
FileRow(cells, batch) == [cells |-> cells, batch |-> batch]

\* The decimal digits of the integer that a text of digits is read as
\* ("0011" is 11) and that to_csv writes for it again.
RECURSIVE Int64Text(_)
Int64Text(text) ==
    IF Len(text) > 1 /\ Head(text) = "0"
    THEN Int64Text(Tail(text))
    ELSE text

\* What to_csv writes for the float64 that a text of digits is read as
\* when its column holds an empty cell: "0011" is 11.0.
Float64Text(text) == Int64Text(text) \o << ".", "0" >>

\* pd.read_csv(self.path) on the lines after the header. A line that ends
\* early is filled up with NaN (no text in a mask column). A mask column
\* holds digits only and is read as int64, or as float64 when one of its
\* cells is empty; the cell of the record that is appended afterwards is a
\* str, so to_csv writes every older mask cell as the number it was read
\* as. Numbers in the other columns are read as the numbers written.
ReadCell(rows, k, c) ==
    LET cells == rows[k].cells
        Blank(r) == c > Len(rows[r].cells) \/ rows[r].cells[c] = << >>
    IN  IF c \notin MaskColumns
        THEN IF c > Len(cells) THEN NaN ELSE cells[c]
        ELSE IF c > Len(cells) \/ cells[c] = << >> THEN << >>
        ELSE IF \E r \in DOMAIN rows : Blank(r)
        THEN IF Len(cells[c]) >= 2 /\ cells[c][Len(cells[c]) - 1] = "."
             THEN cells[c]
             ELSE Float64Text(cells[c])
        ELSE Int64Text(cells[c])

ReadCsv(rows) ==
    [k \in DOMAIN rows |->
        FileRow([c \in 1..NumColumns |-> ReadCell(rows, k, c)],
                rows[k].batch)]

\* A mutant of the write: df_new.to_csv(self.path) whether or not the file
\* exists.
DfWriteOverwrites == << FileRow(Columns(NewRow), save.batch) >>

\* if self.path.is_file(): df_old = pd.read_csv(self.path); df_write =
\* pd.concat([df_old, df_new]); df_write.to_csv(self.path) else:
\* df_new.to_csv(self.path). The lines of the file afterwards, the header
\* apart, when nothing raises.
DfWrite ==
    IF csv_file.is_file
    THEN ReadCsv(csv) \o << FileRow(Columns(NewRow), save.batch) >>
    ELSE << FileRow(Columns(NewRow), save.batch) >>

\* self.path.is_file() or pd.read_csv raises: no path is set, or the file
\* has no first line (EmptyDataError).
WriteRaises ==
    \/ ~data.configured
    \/ data.path = "none"
    \/ csv_file = EmptyFile

\* The largest number of cells in the beginning of a line that a failed
\* write leaves behind.
MaxTornCells == 1

\* What a to_csv that raises after it has opened the file leaves behind:
\* nothing, or the header, some of the lines and possibly the beginning of
\* the next line.
TornFiles ==
    { [columns |-> << >>, rows |-> << >>] }
    \cup { [columns |-> Header, rows |-> SubSeq(DfWrite, 1, k)] :
              k \in 0..(Len(DfWrite) - 1) }
    \cup { [columns |-> Header,
            rows |-> Append(SubSeq(DfWrite, 1, k),
                            FileRow(SubSeq(DfWrite[k + 1].cells, 1, j),
                                    DfWrite[k + 1].batch))] :
              k \in 0..(Len(DfWrite) - 1), j \in 1..MaxTornCells }

\* Reading the old file or writing the new one may raise: before to_csv
\* has opened the file, which is then as it was, or afterwards. The except
\* clause reports it.
WriteOrRaise ==
    \/ /\ ~WriteRaises
       /\ csv' = DfWrite
       /\ csv_file' = LogFile
       /\ plotQ' = Append(plotQ, Ev("updateInfoLabel", "saved"))
    \/ /\ plotQ' = Append(plotQ, Ev("updateInfoLabel", "save_error"))
       /\ UNCHANGED << csv, csv_file >>
    \/ /\ ~WriteRaises
       /\ \E torn \in TornFiles :
            /\ csv' = torn.rows
            /\ csv_file' = [is_file |-> TRUE, columns |-> torn.columns]
       /\ plotQ' = Append(plotQ, Ev("updateInfoLabel", "save_error"))

\* The means, the record and the write to the file.
SaveWrite ==
    /\ pc = "save_write"
    /\ Room(plotQ)
    /\ WriteOrRaise
    /\ pc' = "save_resume"
    /\ UNCHANGED << show_plot_button, save_data_button, plot_window_visible,
                    plot_init_flag, info_label, mainQ, x_coordinates,
                    user_actions, devices, demo_mode, stop_flag, dataQ, data,
                    save, cycles, number_of_measurements, calcQ, calc, plot,
                    published, calc_log, last_query, faulted, last_setup, run, view, profile >>

\* self.readDataLoop() at the end of saveData
SaveResume ==
    /\ pc = "save_resume"
    /\ stop_flag' = FALSE
    /\ save' = EmptySave
    /\ pc' = "rdl_while"
    /\ UNCHANGED << show_plot_button, save_data_button, plot_window_visible,
                    plot_init_flag, info_label, mainQ, x_coordinates,
                    user_actions, devices, demo_mode, dataQ, data, csv,
                    cycles, number_of_measurements, calcQ, calc, plotQ, plot,
                    published, calc_log, last_query, faulted, last_setup, run, view, csv_file, profile >>

(***************************************************************************)
(* Calc thread: workers.Calculations.                                      *)
(***************************************************************************)
CalcUpdateSetupData ==
    /\ calcQ # << >>
    /\ Head(calcQ).slot = "updateSetupData"
    /\ run.active = 0
    /\ calc' = [calc EXCEPT
                  !.configured = TRUE,
                  !.mask_top = Head(calcQ).arg.mask_top,
                  !.mask_bottom = Head(calcQ).arg.mask_bottom,
                  !.sent = Head(calcQ).arg.sent,
                  !.x_coordinates_top =
                        Pick(x_coordinates, Head(calcQ).arg.mask_top),
                  !.x_coordinates_bottom =
                        Pick(x_coordinates, Head(calcQ).arg.mask_bottom)]
    /\ calcQ' = Tail(calcQ)
    /\ UNCHANGED << show_plot_button, save_data_button, plot_window_visible,
                    plot_init_flag, info_label, mainQ, x_coordinates,
                    user_actions, devices, demo_mode, pc, stop_flag, dataQ,
                    data, save, csv, cycles, number_of_measurements, plotQ,
                    plot, published, calc_log, last_query, faulted, last_setup, run, view, csv_file, profile >>

CalcUpdateData ==
    /\ calcQ # << >>
    /\ Head(calcQ).slot = "updateData"
    /\ run.active = 0
    /\ calc' = [calc EXCEPT !.pressure_array = Head(calcQ).arg.pressure,
                            !.seq = Head(calcQ).arg.seq]
    /\ calcQ' = Tail(calcQ)
    /\ UNCHANGED << show_plot_button, save_data_button, plot_window_visible,
                    plot_init_flag, info_label, mainQ, x_coordinates,
                    user_actions, devices, demo_mode, pc, stop_flag, dataQ,
                    data, save, csv, cycles, number_of_measurements, plotQ,
                    plot, published, calc_log, last_query, faulted, last_setup, run, view, csv_file, profile >>

\* Two elements of the array are equal.
Repeats(x) == \E i, j \in DOMAIN x : i < j /\ x[i] = x[j]

\* One surface makes calculateLiftAndSplines raise: no point ([-1]), one
\* point below 0.99 ([-2]), knots that are not strictly increasing or a
\* pressure that is not finite (Akima1DInterpolator).
SurfaceRaises(x, p) ==
    \/ Len(x) = 0
    \/ Len(x) = 1 /\ x[1] < TRAILING_EDGE
    \/ Repeats(x)
    \/ \E k \in DOMAIN p : ~IsFinite(p[k])

CalcRaises(c) ==
    \/ ~c.configured
    \/ SurfaceRaises(c.x_coordinates_top, Pick(c.pressure_array, c.mask_top))
    \/ SurfaceRaises(c.x_coordinates_bottom,
                     Pick(c.pressure_array, c.mask_bottom))

(***************************************************************************)
(* The numbers of calculateLiftAndSplines.  Pressures are exact fractions  *)
(* num/den, den > 0, in lowest terms (the rounding of the floats is left   *)
(* out); coordinates are whole multiples of 0.00001 chord.                 *)
(***************************************************************************)
Abs(n) == IF n < 0 THEN 0 - n ELSE n

RECURSIVE Gcd(_, _)
Gcd(a, b) == IF b = 0 THEN a ELSE Gcd(b, a % b)

\* n / d, d # 0
Frac(n, d) ==
    LET g == Gcd(Abs(n), Abs(d))
        sign == IF d < 0 THEN 0 - 1 ELSE 1
    IN  [num |-> (sign * n) \div g, den |-> (sign * d) \div g]

Zero == Frac(0, 1)

\* nan or inf as a pressure
NaNFrac == [num |-> 0, den |-> 0]

\* arr[-1], arr[-2]
Last(arr) == arr[Len(arr)]

Last2(arr) == arr[Len(arr) - 1]

\* arr[indices]
Take(arr, indices) == [k \in DOMAIN indices |-> arr[indices[k]]]

\* np.lexsort((pressures, x)): the indices in ascending order of x, equal x
\* in ascending order of the pressure
LexSort(pressures, x) ==
    LET Before(i, j) ==
            \/ x[i] < x[j]
            \/ x[i] = x[j] /\ pressures[i] < pressures[j]
            \/ x[i] = x[j] /\ pressures[i] = pressures[j] /\ i < j
    IN  [k \in DOMAIN x |->
            CHOOSE i \in DOMAIN x :
                Cardinality({j \in DOMAIN x : Before(j, i)}) = k - 1]

\* A mutant of the sort: the coordinates are put in order, the pressures
\* are left in the order of the taps.
SortKnotsCoordsOnly(x, pressures) ==
    LET sorted_indices == LexSort(pressures, x)
    IN  [x |-> Take(x, sorted_indices), p |-> pressures]

\* The coordinates and pressures of a surface, sorted.
SortKnots(x, pressures) ==
    LET sorted_indices == LexSort(pressures, x)
    IN  [x |-> Take(x, sorted_indices),
         p |-> Take(pressures, sorted_indices)]

\* last_pressure_top = pressures_top[-2] + (pressures_top[-1] -
\* pressures_top[-2])
LastPressureTop(pressures_top) ==
    Frac(Last2(pressures_top) + (Last(pressures_top) - Last2(pressures_top)),
         1)

\* last_pressure_bottom = pressures_bottom[-2] + (pressures_bottom[-1] -
\* pressures_bottom[-2]) / (self.x_coordinates_bottom[-1] -
\* self.x_coordinates_bottom[-2]) * (1 - self.x_coordinates_bottom[-2]):
\* the pressures are the sorted ones, the coordinates are the attribute of
\* the worker, in the order of the taps.  A difference of 0 gives nan or
\* inf in numpy: NaNFrac here.
LastPressureBottom(pressures_bottom, x_coordinates_bottom) ==
    LET dx == Last(x_coordinates_bottom) - Last2(x_coordinates_bottom)
    IN  IF dx = 0
        THEN NaNFrac
        ELSE Frac(Last2(pressures_bottom) * dx
                    + (Last(pressures_bottom) - Last2(pressures_bottom))
                        * (CHORD - Last2(x_coordinates_bottom)),
                  dx)

\* if x[-1] < 0.99: append (1, last_pressure)
AppendTrailing(sorted, last_pressure) ==
    IF Last(sorted.x) < TRAILING_EDGE
    THEN [x |-> Append(sorted.x, CHORD),
          p |-> Append([k \in DOMAIN sorted.p |-> Frac(sorted.p[k], 1)],
                       last_pressure)]
    ELSE [x |-> sorted.x,
          p |-> [k \in DOMAIN sorted.p |-> Frac(sorted.p[k], 1)]]

\* A mutant of the leading edge step: (0, 0) is prepended in every case.
PrependLeadingAlways(knots) ==
    [x |-> << 0 >> \o knots.x, p |-> << Zero >> \o knots.p]

\* if x[0] > 0.00001: prepend (0, 0)
PrependLeading(knots) ==
    IF knots.x[1] > LEADING_EDGE
    THEN [x |-> << 0 >> \o knots.x, p |-> << Zero >> \o knots.p]
    ELSE knots

\* x_coordinates_top_calc, pressures_top before the interpolation
KnotsTop(c) ==
    LET sorted == SortKnots(c.x_coordinates_top,
                            Pick(c.pressure_array, c.mask_top))
    IN  PrependLeading(AppendTrailing(sorted, LastPressureTop(sorted.p)))

\* x_coordinates_bottom_calc, pressures_bottom before the interpolation
KnotsBottom(c) ==
    LET sorted == SortKnots(c.x_coordinates_bottom,
                            Pick(c.pressure_array, c.mask_bottom))
    IN  PrependLeading(
            AppendTrailing(sorted,
                           LastPressureBottom(sorted.p,
                                              c.x_coordinates_bottom)))

\* points of the interpolation grid of the model
NumInterpolPoints == 5

\* np.linspace(0, 1, self.number_of_interpolated_points)
XGridInterpolation ==
    [k \in 1..NumInterpolPoints |->
        ((k - 1) * CHORD) \div (NumInterpolPoints - 1)]

\* Akima1DInterpolator(x, pressures)(g): nan outside the knots (no
\* extrapolation) and when a knot pressure is nan, 0 when every knot
\* pressure is 0, else a number the model does not compute.
SplineAt(knots, g) ==
    IF \/ g < knots.x[1] \/ g > Last(knots.x)
       \/ \E k \in DOMAIN knots.p : knots.p[k] = NaNFrac
    THEN NaN
    ELSE IF \A k \in DOMAIN knots.p : knots.p[k] = Zero
    THEN 0
    ELSE UNKNOWN

\* np.linspace(start, stop, num)
Linspace(start, stop, num) ==
    [k \in 1..num |-> start + ((k - 1) * (stop - start)) \div (num - 1)]

\* A mutant of np.diff: np.diff(a, prepend=a[0])
DiffPrepend(a) ==
    [k \in 1..Len(a) |-> IF k = 1 THEN 0 ELSE a[k] - a[k - 1]]

\* np.diff(a)
Diff(a) == [k \in 1..(Len(a) - 1) |-> a[k + 1] - a[k]]

\* interpolate_pressures = Akima1DInterpolator(x, pressures)(
\* x_grid_interpolation)
InterpolatePressures(knots) ==
    [k \in DOMAIN XGridInterpolation |-> SplineAt(knots, XGridInterpolation[k])]

\* Akima1DInterpolator(self.x_wing, self.y_wing)(x_wing_interpolation):
\* one number for each point, which the model does not compute
WingInterpolation(x_wing_interpolation) ==
    [k \in DOMAIN x_wing_interpolation |-> UNKNOWN]

\* The places of interpolate_pressures[1:] in interpolate_pressures,
\* counted from 1
PanelSamples(interpolate_pressures) ==
    Tail([k \in DOMAIN interpolate_pressures |-> k])

\* np.sum(-1 * interpolate_pressures[1:] * norm_y * area), the wing
\* geometry and the width being finite numbers
SurfaceLift(knots) ==
    LET interpolate_pressures == InterpolatePressures(knots)
        samples == PanelSamples(interpolate_pressures)
        values == { interpolate_pressures[samples[k]] : k \in DOMAIN samples }
    IN  IF NaN \in values THEN NaN
        ELSE IF values = {0} THEN 0
        ELSE UNKNOWN

\* (lift_top + lift_bottom) * np.cos(np.deg2rad(self.angle))
LiftValue(knots_top, knots_bottom) ==
    LET lift_top == SurfaceLift(knots_top)
        lift_bottom == SurfaceLift(knots_bottom)
    IN  IF lift_top = NaN \/ lift_bottom = NaN THEN NaN
        ELSE IF lift_top = 0 /\ lift_bottom = 0 THEN 0
        ELSE UNKNOWN

\* A mutant of calculateLiftAndSplines: the result is sent from the except
\* clause as well.
CalculatePublishesAlways ==
    /\ calcQ # << >>
    /\ Head(calcQ).slot = "calculateLiftAndSplines"
    /\ Room(mainQ) /\ Room(plotQ)
    /\ calcQ' = Tail(calcQ)
    /\ calc_log' = Append(calc_log, calc.seq)
    /\ LET result == [lift |-> Lift(calc.seq), value |-> UNKNOWN,
                      lift_data_available |-> TRUE]
       IN  /\ calc' = [calc EXCEPT !.lift = result.lift]
           /\ mainQ' = Append(mainQ, Ev("updateLift", result))
           /\ plotQ' = Append(plotQ, Ev("updateLiftAndSplines", result))
    /\ UNCHANGED << show_plot_button, save_data_button, plot_window_visible,
                    plot_init_flag, info_label, x_coordinates, user_actions,
                    devices, demo_mode, pc, stop_flag, dataQ, data, save,
                    csv, cycles, number_of_measurements, plot, published,
                    last_query, faulted, last_setup, run, view, csv_file, profile >>

\* Calculations.calculateLiftAndSplines: on success the result is sent to
\* Data.updateLift (main thread) and Plot.updateLiftAndSplines; an
\* exception is caught and nothing is sent.
CalculateLiftAndSplines ==
    /\ calcQ # << >>
    /\ Head(calcQ).slot = "calculateLiftAndSplines"
    /\ Room(mainQ) /\ Room(plotQ)
    /\ calcQ' = Tail(calcQ)
    /\ calc_log' = Append(calc_log, calc.seq)
    /\ IF CalcRaises(calc)
       THEN UNCHANGED << calc, mainQ, plotQ >>
       ELSE LET result == [lift |-> Lift(calc.seq),
                           value |-> LiftValue(KnotsTop(calc),
                                               KnotsBottom(calc)),
                           lift_data_available |-> TRUE]
            IN  /\ calc' = [calc EXCEPT !.lift = result.lift]
                /\ mainQ' = Append(mainQ, Ev("updateLift", result))
                /\ plotQ' = Append(plotQ, Ev("updateLiftAndSplines", result))
    /\ UNCHANGED << show_plot_button, save_data_button, plot_window_visible,
                    plot_init_flag, info_label, x_coordinates, user_actions,
                    devices, demo_mode, pc, stop_flag, dataQ, data, save,
                    csv, cycles, number_of_measurements, plot, published,
                    last_query, faulted, last_setup, run, view, csv_file, profile >>

(***************************************************************************)
(* Plot thread: the slots of workers.Plot.                                 *)
(***************************************************************************)
PlotUpdateSetupData ==
    /\ plotQ # << >>
    /\ Head(plotQ).slot = "updateSetupData"
    /\ plot' = [plot EXCEPT
                  !.configured = TRUE,
                  !.mask_top = Head(plotQ).arg.mask_top,
                  !.mask_bottom = Head(plotQ).arg.mask_bottom,
                  !.sent = Head(plotQ).arg.sent,
                  !.x_coordinates_top =
                        Pick(x_coordinates, Head(plotQ).arg.mask_top),
                  !.x_coordinates_bottom =
                        Pick(x_coordinates, Head(plotQ).arg.mask_bottom)]
    /\ plotQ' = Tail(plotQ)
    /\ UNCHANGED << show_plot_button, save_data_button, plot_window_visible,
                    plot_init_flag, info_label, mainQ, x_coordinates,
                    user_actions, devices, demo_mode, pc, stop_flag, dataQ,
                    data, save, csv, cycles, number_of_measurements, calcQ,
                    calc, published, calc_log, last_query, faulted, last_setup, run, view, csv_file, profile >>

PlotUpdateData ==
    /\ plotQ # << >>
    /\ Head(plotQ).slot = "updateData"
    /\ plot' = [plot EXCEPT !.pressure_array = Head(plotQ).arg.pressure,
                            !.density_array = Head(plotQ).arg.density,
                            !.seq = Head(plotQ).arg.seq]
    /\ plotQ' = Tail(plotQ)
    /\ UNCHANGED << show_plot_button, save_data_button, plot_window_visible,
                    plot_init_flag, info_label, mainQ, x_coordinates,
                    user_actions, devices, demo_mode, pc, stop_flag, dataQ,
                    data, save, csv, cycles, number_of_measurements, calcQ,
                    calc, published, calc_log, last_query, faulted, last_setup, run, view, csv_file, profile >>

PlotUpdateLiftAndSplines ==
    /\ plotQ # << >>
    /\ Head(plotQ).slot = "updateLiftAndSplines"
    /\ plot' = [plot EXCEPT
                  !.lift = Head(plotQ).arg.lift,
                  !.lift_data_available = Head(plotQ).arg.lift_data_available]
    /\ view' = [view EXCEPT !.spline = Head(plotQ).arg.lift.src,
                            !.x_grid_interpolation = TRUE,
                            !.wing = TRUE]
    /\ plotQ' = Tail(plotQ)
    /\ UNCHANGED << show_plot_button, save_data_button, plot_window_visible,
                    plot_init_flag, info_label, mainQ, x_coordinates,
                    user_actions, devices, demo_mode, pc, stop_flag, dataQ,
                    data, save, csv, cycles, number_of_measurements, calcQ,
                    calc, published, calc_log, last_query, faulted, last_setup, run, csv_file, profile >>

PlotUpdateInfoLabel ==
    /\ plotQ # << >>
    /\ Head(plotQ).slot = "updateInfoLabel"
    /\ info_label' = Head(plotQ).arg
    /\ plotQ' = Tail(plotQ)
    /\ UNCHANGED << show_plot_button, save_data_button, plot_window_visible,
                    plot_init_flag, mainQ, x_coordinates, user_actions,
                    devices, demo_mode, pc, stop_flag, dataQ, data, save,
                    csv, cycles, number_of_measurements, calcQ, calc, plot,
                    published, calc_log, last_query, faulted, last_setup, run, view, csv_file, profile >>

(***************************************************************************)
(* The pipeline.                                                           *)
(***************************************************************************)
UserSetUp ==
    \E in \in SetupInputs, conn_ok \in BOOLEAN,
       p_resp \in PressureResponses, d_resp \in DensityResponses :
        SetUp(in, conn_ok, p_resp, d_resp)

Next ==
    \/ UserSetUp
    \/ ShowPlot
    \/ SaveDataSignal
    \/ ClosePlotWindow
    \/ SwitchPlotButton
    \/ SwitchSaveButtonStatus
    \/ UpdateLift
    \/ DataUpdateSetupData
    \/ DataUpdatePath
    \/ DataUpdateSerialConnections
    \/ ReadDataLoop
    \/ RdlWhile
    \/ RdlRead
    \/ RdlSend
    \/ RdlEmit
    \/ SaveData
    \/ SaveFor
    \/ SaveRead
    \/ SaveSend
    \/ SaveStore
    \/ SaveWrite
    \/ SaveResume
    \/ CalcUpdateSetupData
    \/ CalcUpdateData
    \/ CalculateLiftAndSplines
    \/ PlotUpdateSetupData
    \/ PlotUpdateData
    \/ PlotUpdateLiftAndSplines
    \/ PlotUpdateInfoLabel

Spec == Init /\ [][Next]_vars

(***************************************************************************)
(* serialdevices.Device on its own: devices are constructed, queried with  *)
(* any response line and closed.                                           *)
(***************************************************************************)
\* Device objects constructed in one behaviour
MaxDevices == 1

\* The response lines tried on a device that expects `shape` values: none,
\* one too few, the right number, one too many; each also with a nan or
\* with a token that is no number, at the first and at the last place.
DeviceLines(shape) ==
    LET plain == { NumLine(n, k) : n \in {0, shape - 1, shape, shape + 1},
                                   k \in {0, 1} }
    IN  plain \cup
        { WithTok(l, at, tok) : l \in { x \in plain : Len(x) = shape + 1 },
                                at \in {1, shape + 1}, tok \in {NaN, JUNK} }
        \cup
        { WithTok(l, at, tok) : l \in { x \in plain : Len(x) = shape },
                                at \in {1, shape}, tok \in {NaN, JUNK} }

DeviceResponses(shape) ==
    { Response(TRUE, l) : l \in DeviceLines(shape) }
        \cup { Response(FALSE, << >>) }

DeviceOthersUnchanged ==
    UNCHANGED << show_plot_button, save_data_button, plot_window_visible,
                 plot_init_flag, info_label, mainQ, x_coordinates,
                 user_actions, demo_mode, pc, stop_flag, dataQ, data, save,
                 csv, cycles, number_of_measurements, calcQ, calc, plotQ,
                 plot, published, calc_log, faulted, last_setup, run, view, csv_file, profile >>

\* Device.__init__ of the pressure and of the density device; when the
\* port cannot be opened the constructor raises and there is no object.
DeviceConstruct ==
    /\ Len(devices) < MaxDevices
    /\ \E conn_ok \in BOOLEAN :
         devices' = IF conn_ok
                    THEN Append(devices,
                                [pressure |-> "open", density |-> "open"])
                    ELSE devices
    /\ UNCHANGED last_query
    /\ DeviceOthersUnchanged

\* Device.getNewData on one of the devices
DeviceGetNewData ==
    \E k \in DOMAIN devices, which \in {"pressure", "density"} :
      \E resp \in DeviceResponses(ExpectedShape(which)) :
        LET r == GetNewData(devices[k][which], ExpectedShape(which), resp)
        IN  /\ devices' = [devices EXCEPT ![k][which] = r.port]
            /\ last_query' = [which |-> which, io_ok |-> resp.io_ok,
                              tokens |-> resp.tokens,
                              ok |-> r.ok, value |-> r.value]
            /\ DeviceOthersUnchanged

\* Device.close
DeviceClose ==
    /\ \E k \in DOMAIN devices, which \in {"pressure", "density"} :
         devices' = [devices EXCEPT ![k][which] = "closed"]
    /\ UNCHANGED last_query
    /\ DeviceOthersUnchanged

NextDevice ==
    \/ DeviceConstruct
    \/ DeviceGetNewData
    \/ DeviceClose

SpecDevice == Init /\ [][NextDevice]_vars

(***************************************************************************)
(* The averaging of saveData on its own: a batch of n identical readings   *)
(* is stored and the record is assembled from it.                          *)
(***************************************************************************)
\* largest batch of the averaging specification
MaxSamples == 3

InitMean ==
    /\ InitCommon
    /\ demo_mode = TRUE
    /\ number_of_measurements \in 1..MaxSamples
    /\ pc = "save_store"
    /\ \E kp \in 0..(SHAPE_PRESSURE - 1), kd \in 0..(SHAPE_DENSITY - 1) :
         data = [DataInit EXCEPT
                   !.pressure_array = NumLine(SHAPE_PRESSURE, kp),
                   !.density_array = NumLine(SHAPE_DENSITY, SHAPE_DENSITY * kd),
                   !.seq = 1, !.configured = TRUE, !.path = "set"]
    /\ save = ZeroArrays

MeanOthersUnchanged ==
    UNCHANGED << show_plot_button, save_data_button, plot_window_visible,
                 plot_init_flag, info_label, mainQ, x_coordinates,
                 user_actions, devices, demo_mode, stop_flag, dataQ, data,
                 cycles, number_of_measurements, calcQ, calc, plotQ, plot,
                 published, calc_log, last_query, faulted, last_setup, run, view, profile >>

\* One pass of the for loop of saveData with the same reading again.
MeanStore ==
    /\ pc = "save_store"
    /\ save' = StoreSample
    /\ pc' = IF save.i + 1 < number_of_measurements
             THEN "save_store" ELSE "save_write"
    /\ UNCHANGED << csv, csv_file >>
    /\ MeanOthersUnchanged

\* The means and the record of saveData.
MeanWrite ==
    /\ pc = "save_write"
    /\ csv' = DfWrite
    /\ csv_file' = LogFile
    /\ pc' = "written"
    /\ UNCHANGED save
    /\ MeanOthersUnchanged

NextMean ==
    \/ MeanStore
    \/ MeanWrite

SpecMean == InitMean /\ [][NextMean]_vars

(***************************************************************************)
(* SetUpWindow.setUp on its own: the first "OK" of the setup window with   *)
(* any state of the check boxes of the first taps, and the next ones with  *)
(* the inputs of the pipeline, the workers not yet having handled          *)
(* anything.                                                               *)
(***************************************************************************)
\* taps whose enable and surface check boxes take every combination
MaxSetupTaps == 5

SetupTaps == 1..MaxSetupTaps

\* The spin boxes: the defaults, and tap 2 or tap 3 set to the coordinate of
\* tap 1.
SetupCoords ==
    { CoordsDefault,
      [CoordsDefault EXCEPT ![2] = CoordsDefault[1]],
      [CoordsDefault EXCEPT ![3] = CoordsDefault[1]] }

SetupInputsAll ==
    { [status |-> [i \in Taps |-> i \in on],
       color  |-> [i \in Taps |-> IF i \in SetupTaps THEN i \in top
                                                    ELSE ColorCode[i]],
       coords |-> c] :
      on \in SUBSET SetupTaps, top \in SUBSET SetupTaps, c \in SetupCoords }

\* The first setUp after the start of the application.
SetupFirst ==
    /\ last_setup = NoSetup
    /\ \E in \in SetupInputsAll, conn_ok \in BOOLEAN,
          p_resp \in PressureResponses, d_resp \in DensityResponses :
           SetUp(in, conn_ok, p_resp, d_resp)

\* A later setUp.
SetupAgain ==
    /\ last_setup # NoSetup
    /\ UserSetUp

NextSetup ==
    \/ SetupFirst
    \/ SetupAgain

\* The number of samples of a batch plays no part in setUp.
InitSetup == Init /\ number_of_measurements = 1

SpecSetup == InitSetup /\ [][NextSetup]_vars

(***************************************************************************)
(* Calculations.calculateLiftAndSplines on its own: the worker holds a     *)
(* valid configuration and the first Reading of the loop, and the call     *)
(* for it runs in two steps, the knots (sorting and boundary extension)    *)
(* and the lift.                                                           *)
(***************************************************************************)
\* The coordinates of the three taps of a surface, in the order of the
\* taps: the example of the specification; taps not in ascending order; a
\* tap at 0 and one at 0.99; a tap at 0.00001 and one at 1; a tap at
\* 0.00002 and one just below 0.99.
KnotSurfaceCoords ==
    { << 10000, 30000, 60000 >>,
      << 60000, 10000, 30000 >>,
      << 0, 30000, 99000 >>,
      << 1, 50000, 100000 >>,
      << 2, 40000, 98999 >> }

\* The pressures at the three taps of a surface.
KnotSurfacePressures ==
    { << 5, 3, 1 >>, << 0, 0, 0 >>, << 1, 4, 2 >> }

\* Taps 1, 3, 5 are on the top and 2, 4, 6 on the bottom surface
\* (ColorCode); the first nt and nb of them are enabled.
KnotArray(top, bottom, other) ==
    [i \in Taps |-> IF i \in {1, 3, 5} THEN top[(i + 1) \div 2]
                    ELSE IF i \in {2, 4, 6} THEN bottom[i \div 2]
                    ELSE other[i]]

KnotMask(taps, n) == [i \in Taps |-> i \in taps /\ (i + 1) \div 2 <= n]

InitKnots ==
    /\ show_plot_button = TRUE
    /\ save_data_button = TRUE
    /\ plot_window_visible = TRUE
    /\ plot_init_flag = TRUE
    /\ info_label = "initial"
    /\ mainQ = << >>
    /\ user_actions = 0
    /\ devices = << >>
    /\ demo_mode = TRUE
    /\ pc = "rdl_while"
    /\ stop_flag = FALSE
    /\ dataQ = << >>
    /\ save = EmptySave
    /\ csv = << >>
    /\ cycles = 1
    /\ number_of_measurements = 1
    /\ plotQ = << >>
    /\ published = << 1 >>
    /\ calc_log = << >>
    /\ last_query = NoQuery
    /\ faulted = FALSE
    /\ last_setup = NoSetup
    /\ run = NoRun
    /\ view = ViewPlotted
    /\ csv_file = NoFile
    /\ profile = ProfileDefault
    /\ calcQ = << Ev("calculateLiftAndSplines", NoArg) >>
    /\ \E ct \in KnotSurfaceCoords, cb \in KnotSurfaceCoords,
          pt \in KnotSurfacePressures, pb \in KnotSurfacePressures,
          nt \in 2..3, nb \in 2..3 :
         LET coords == KnotArray(ct, cb, CoordsDefault)
             mask_top == KnotMask({1, 3, 5}, nt)
             mask_bottom == KnotMask({2, 4, 6}, nb)
             pressure_array == KnotArray(pt, pb, DefaultPressureArray)
             density_array == NumLine(SHAPE_DENSITY, 0)
         IN  /\ x_coordinates = coords
             /\ data = [DataInit EXCEPT
                           !.pressure_array = pressure_array,
                           !.density_array = density_array,
                           !.seq = 1, !.configured = TRUE,
                           !.mask_top = mask_top,
                           !.mask_bottom = mask_bottom,
                           !.sent = coords, !.path = "set"]
             /\ plot = [pressure_array |-> pressure_array,
                        density_array |-> density_array, seq |-> 1,
                        lift |-> Lift(0), lift_data_available |-> FALSE,
                        configured |-> TRUE,
                        mask_top |-> mask_top, mask_bottom |-> mask_bottom,
                        sent |-> coords,
                        x_coordinates_top |-> Pick(coords, mask_top),
                        x_coordinates_bottom |-> Pick(coords, mask_bottom)]
             /\ calc = [pressure_array |-> pressure_array,
                        seq |-> 1, configured |-> TRUE,
                        mask_top |-> mask_top, mask_bottom |-> mask_bottom,
                        sent |-> coords,
                        x_coordinates_top |-> Pick(coords, mask_top),
                        x_coordinates_bottom |-> Pick(coords, mask_bottom),
                        lift |-> Lift(0)]

KnotsOthersUnchanged ==
    UNCHANGED << show_plot_button, save_data_button, plot_window_visible,
                 plot_init_flag, info_label, x_coordinates, user_actions,
                 devices, demo_mode, pc, stop_flag, dataQ, data, save, csv,
                 cycles, number_of_measurements, plot, published,
                 last_query, faulted, last_setup, view, csv_file, profile >>

\* A mutant of the connection of calc_lift_splines_sig: the slot is called
\* at once (a direct connection), also while a run is in progress.
KnotsExtendDirect ==
    /\ calcQ # << >>
    /\ Head(calcQ).slot = "calculateLiftAndSplines"
    /\ calcQ' = Tail(calcQ)
    /\ run' = IF CalcRaises(calc)
              THEN [at |-> "raised", active |-> run.active + 1]
              ELSE [at |-> "extended", active |-> run.active + 1,
                    sorted_top |->
                        SortKnots(calc.x_coordinates_top,
                                  Pick(calc.pressure_array, calc.mask_top)),
                    sorted_bottom |->
                        SortKnots(calc.x_coordinates_bottom,
                                  Pick(calc.pressure_array, calc.mask_bottom)),
                    top |-> KnotsTop(calc), bottom |-> KnotsBottom(calc)]
    /\ UNCHANGED << calc, calc_log, mainQ, plotQ >>
    /\ KnotsOthersUnchanged

\* calculateLiftAndSplines up to the boundary extension: the knots of the
\* two surfaces. The event loop of the calculations thread takes the
\* queued call from its queue when no slot of the worker is running
\* (run.active counts the calls that have begun and not returned).
KnotsExtend ==
    /\ calcQ # << >>
    /\ Head(calcQ).slot = "calculateLiftAndSplines"
    /\ run.active = 0
    /\ calcQ' = Tail(calcQ)
    /\ run' = IF CalcRaises(calc)
              THEN [at |-> "raised", active |-> run.active + 1]
              ELSE [at |-> "extended", active |-> run.active + 1,
                    sorted_top |->
                        SortKnots(calc.x_coordinates_top,
                                  Pick(calc.pressure_array, calc.mask_top)),
                    sorted_bottom |->
                        SortKnots(calc.x_coordinates_bottom,
                                  Pick(calc.pressure_array, calc.mask_bottom)),
                    top |-> KnotsTop(calc), bottom |-> KnotsBottom(calc)]
    /\ UNCHANGED << calc, calc_log, mainQ, plotQ >>
    /\ KnotsOthersUnchanged

\* calculateLiftAndSplines from the interpolation on: the lift is
\* calculated and sent, or the except clause is reached.
KnotsLift ==
    /\ run.at \in {"extended", "raised"}
    /\ Room(mainQ) /\ Room(plotQ)
    /\ calc_log' = Append(calc_log, calc.seq)
    /\ UNCHANGED calcQ
    /\ IF run.at = "raised"
       THEN /\ run' = [at |-> "failed", active |-> run.active - 1]
            /\ UNCHANGED << calc, mainQ, plotQ >>
       ELSE LET x_wing_interpolation_top ==
                    Linspace(profile.read.x_top[1], Last(profile.read.x_top),
                             NumInterpolPoints)
                x_wing_interpolation_bottom ==
                    Linspace(profile.read.x_bottom[1],
                             Last(profile.read.x_bottom), NumInterpolPoints)
                result == [lift |-> Lift(calc.seq),
                           value |-> LiftValue(run.top, run.bottom),
                           spline_top |-> InterpolatePressures(run.top),
                           spline_bottom |-> InterpolatePressures(run.bottom),
                           x_grid_interpolation |-> XGridInterpolation,
                           y_wing_top |->
                               WingInterpolation(x_wing_interpolation_top),
                           y_wing_bottom |->
                               WingInterpolation(x_wing_interpolation_bottom),
                           x_wing_interpolation_top |->
                               x_wing_interpolation_top,
                           x_wing_interpolation_bottom |->
                               x_wing_interpolation_bottom,
                           lift_data_available |-> TRUE]
            IN  /\ run' = [at |-> "sent", active |-> run.active - 1,
                           sorted_top |-> run.sorted_top,
                           sorted_bottom |-> run.sorted_bottom,
                           top |-> run.top, bottom |-> run.bottom,
                           delta_x_top |-> Diff(x_wing_interpolation_top),
                           delta_x_bottom |->
                               Diff(x_wing_interpolation_bottom),
                           delta_y_top |-> Diff(result.y_wing_top),
                           delta_y_bottom |-> Diff(result.y_wing_bottom),
                           samples_top |-> PanelSamples(result.spline_top),
                           samples_bottom |->
                               PanelSamples(result.spline_bottom)]
                /\ calc' = [calc EXCEPT !.lift = result.lift]
                /\ mainQ' = Append(mainQ, Ev("updateLift", result))
                /\ plotQ' = Append(plotQ, Ev("updateLiftAndSplines", result))
    /\ KnotsOthersUnchanged

NextKnots ==
    \/ KnotsExtend
    \/ KnotsLift

SpecKnots == InitKnots /\ [][NextKnots]_vars

(***************************************************************************)
(* The presentation: Plot.animate is called by the timer of the            *)
(* FuncAnimation that Plot.plot creates in the main thread, while the      *)
(* decorated slots of Plot (updateData, updateLiftAndSplines,              *)
(* updateCheckboxTuple) run in the plot thread.  The two threads share the *)
(* attributes of Plot without a lock, so a call of animate may come        *)
(* between two assignments of updateLiftAndSplines.  The loop of the data  *)
(* thread is running (demo mode) and the user clicks the plot option check *)
(* boxes.                                                                  *)
(***************************************************************************)
\* readData calls of the loop while the presentation is watched
MaxPlotCycles == 2
\* clicks on the plot option check boxes
MaxClicks == 2

\* DEFAULTS["VELOCITY"]: the values the model is started with
Velocities == {2, 4}

\* self.density: density_array[3] of the latest Reading, and of
\* DEFAULTS["PRESSURE_ARRAY"] before the first one
Density(p) ==
    IF p.density_array = << >> THEN DefaultPressureArray[SHAPE_DENSITY]
    ELSE p.density_array[SHAPE_DENSITY]

\* denominator_cp = 0.5 * self.velocity**2 * self.density
DenominatorCp(velocity, density) == (velocity * velocity * density) \div 2

PlotOthersUnchanged ==
    UNCHANGED << show_plot_button, save_data_button, plot_window_visible,
                 plot_init_flag, info_label, mainQ, x_coordinates, devices,
                 demo_mode, pc, stop_flag, dataQ, data, save, csv, cycles,
                 number_of_measurements, calcQ, calc, published, calc_log,
                 last_query, faulted, last_setup, run, csv_file, profile >>

\* What animate has read from the attributes of Plot.
Seen(denominator_cp) ==
    [seq |-> plot.seq, lift |-> plot.lift.src,
     denominator_cp |-> denominator_cp]

\* Plot.updateDynamicLCDs: the environment of the latest Reading and
\* f"{self.lift:.02f}"
UpdateDynamicLCDs == [seq |-> plot.seq, lift |-> Shown(plot.lift.src, Raw)]

\* A mutant of plotPause: the LCDs are refreshed while paused.
PlotPauseRefreshesLCDs ==
    [view EXCEPT !.boxes_enabled = FALSE, !.mode = "pause",
                 !.lcd = UpdateDynamicLCDs]

\* Plot.plotPause
PlotPause == [view EXCEPT !.boxes_enabled = FALSE, !.mode = "pause"]

\* Plot.plotPressures
PlotPressures ==
    [view EXCEPT
       !.boxes_enabled = TRUE,
       !.mode = "pressures",
       !.seen = Seen(Raw),
       !.raised = FALSE,
       !.line_pressures = Shown(plot.seq, Raw),
       !.line_spline = IF view.checkbox_tuple.line /\ plot.lift_data_available
                       THEN Shown(view.spline, Raw)
                       ELSE NoData,
       !.line_wing = IF view.checkbox_tuple.line /\ plot.lift_data_available
                     THEN "pressures"
                     ELSE @,
       !.lcd = UpdateDynamicLCDs]

\* Plot.plotCp.  With the line check box set the splines are handed over
\* without a look at lift_data_available: an attribute that is not defined
\* yet raises AttributeError and the empty list of the wing IndexError,
\* which ends the call where it is; updateDynamicLCDs is called in the else
\* branch only.
PlotCp ==
    LET denominator_cp == DenominatorCp(view.velocity, Density(plot))
        started == [view EXCEPT
                      !.boxes_enabled = TRUE,
                      !.mode = "cp",
                      !.seen = Seen(denominator_cp),
                      !.raised = FALSE,
                      !.line_pressures = Shown(plot.seq, denominator_cp)]
    IN  IF ~view.checkbox_tuple.line
        THEN [started EXCEPT !.line_spline = NoData,
                             !.lcd = UpdateDynamicLCDs]
        ELSE IF ~view.x_grid_interpolation \/ view.spline = Undefined
        THEN [started EXCEPT !.raised = TRUE]
        ELSE IF ~view.wing
        THEN [started EXCEPT
                 !.line_spline = Shown(view.spline, denominator_cp),
                 !.raised = TRUE]
        ELSE [started EXCEPT
                 !.line_spline = Shown(view.spline, denominator_cp),
                 !.line_wing = "cp"]

\* The keys of plot_options_dict with pause set:
\* [(True,) + combo for combo in product([False, True], repeat=2)]
pause_tuples == { CheckboxTuple(TRUE, line, cp) : line \in BOOLEAN,
                                                  cp \in BOOLEAN }

\* A mutant of plot_options_dict: the line check box selects the method.
PlotOptionsDictLineSelects ==
    [key \in pause_tuples |-> "plotPause"]
        @@ (CheckboxTuple(FALSE, TRUE, TRUE) :> "plotCp")
        @@ (CheckboxTuple(FALSE, FALSE, FALSE) :> "plotPressures")
        @@ (CheckboxTuple(FALSE, FALSE, TRUE) :> "plotPressures")
        @@ (CheckboxTuple(FALSE, TRUE, FALSE) :> "plotCp")

\* Plot.__init__: the dictionary of the plot methods, first the keys of
\* pause_tuples, then the four keys that are added one by one.
plot_options_dict ==
    [key \in pause_tuples |-> "plotPause"]
        @@ (CheckboxTuple(FALSE, TRUE, TRUE) :> "plotCp")
        @@ (CheckboxTuple(FALSE, FALSE, FALSE) :> "plotPressures")
        @@ (CheckboxTuple(FALSE, FALSE, TRUE) :> "plotCp")
        @@ (CheckboxTuple(FALSE, TRUE, FALSE) :> "plotPressures")

\* dict.get: the method of a key, None for a key that is not there
PlotOptionsDictGet(key) ==
    IF key \in DOMAIN plot_options_dict
    THEN plot_options_dict[key]
    ELSE "None"

\* self.plot_options_dict.get(self.checkbox_tuple)(): the call of None
\* raises TypeError and nothing is drawn.
PlotOption ==
    LET method == PlotOptionsDictGet(view.checkbox_tuple)
    IN  CASE method = "plotPause" -> PlotPause
          [] method = "plotCp" -> PlotCp
          [] method = "plotPressures" -> PlotPressures
          [] OTHER -> [view EXCEPT !.mode = "none", !.raised = TRUE]

\* Plot.animate, called by the timer of the animation (main thread)
Animate ==
    /\ plot_init_flag
    /\ view' = PlotOption
    /\ UNCHANGED << plot, plotQ, user_actions >>
    /\ PlotOthersUnchanged

\* A click on one of the check boxes: PlotWindow.sendCheckboxTuple.  The
\* line and the cp box can be clicked only while they are enabled.
SendCheckboxTuple ==
    /\ plot_window_visible
    /\ user_actions < MaxUserActions
    /\ Room(plotQ)
    /\ \E box \in {"pause", "line", "cp"} :
         /\ box = "pause" \/ view.boxes_enabled
         /\ LET checkbox_tuple == [view.boxes EXCEPT ![box] = ~@]
            IN  /\ view' = [view EXCEPT !.boxes = checkbox_tuple]
                /\ plotQ' = Append(plotQ,
                                   Ev("updateCheckboxTuple", checkbox_tuple))
    /\ user_actions' = user_actions + 1
    /\ UNCHANGED plot
    /\ PlotOthersUnchanged

\* Plot.updateCheckboxTuple (plot thread)
PlotUpdateCheckboxTuple ==
    /\ plotQ # << >>
    /\ Head(plotQ).slot = "updateCheckboxTuple"
    /\ view' = [view EXCEPT !.checkbox_tuple = Head(plotQ).arg]
    /\ plotQ' = Tail(plotQ)
    /\ UNCHANGED << plot, user_actions >>
    /\ PlotOthersUnchanged

\* Plot.updateLiftAndSplines (plot thread), one group of assignments at a
\* time: lift; spline_top and spline_bottom; x_grid_interpolation; the four
\* arrays of the wing; lift_data_available.
PlotUpdateLiftAndSplinesStep ==
    /\ plotQ # << >>
    /\ Head(plotQ).slot = "updateLiftAndSplines"
    /\ LET lift_and_splines == Head(plotQ).arg
       IN  CASE view.at = 0 ->
                  /\ plot' = [plot EXCEPT !.lift = lift_and_splines.lift]
                  /\ view' = [view EXCEPT !.at = 1]
                  /\ UNCHANGED plotQ
             [] view.at = 1 ->
                  /\ view' = [view EXCEPT !.spline = lift_and_splines.lift.src,
                                          !.at = 2]
                  /\ UNCHANGED << plot, plotQ >>
             [] view.at = 2 ->
                  /\ view' = [view EXCEPT !.x_grid_interpolation = TRUE,
                                          !.at = 3]
                  /\ UNCHANGED << plot, plotQ >>
             [] view.at = 3 ->
                  /\ view' = [view EXCEPT !.wing = TRUE, !.at = 4]
                  /\ UNCHANGED << plot, plotQ >>
             [] view.at = 4 ->
                  /\ plot' = [plot EXCEPT !.lift_data_available =
                                    lift_and_splines.lift_data_available]
                  /\ view' = [view EXCEPT !.at = 0]
                  /\ plotQ' = Tail(plotQ)
    /\ UNCHANGED user_actions
    /\ PlotOthersUnchanged

\* The plot window is shown, the three workers hold the first
\* configuration of SetupInputs and readDataLoop has just been entered;
\* MaxPlotCycles readData calls and MaxClicks user actions are left.
InitPlot ==
    /\ show_plot_button = TRUE
    /\ save_data_button = TRUE
    /\ plot_window_visible = TRUE
    /\ plot_init_flag = TRUE
    /\ info_label = "initial"
    /\ mainQ = << >>
    /\ x_coordinates = CoordsDefault
    /\ user_actions = MaxUserActions - MaxClicks
    /\ devices = << >>
    /\ demo_mode = TRUE
    /\ pc = "rdl_while"
    /\ stop_flag = FALSE
    /\ dataQ = << >>
    /\ save = EmptySave
    /\ csv = << >>
    /\ csv_file = NoFile
    /\ profile = ProfileDefault
    /\ cycles = MaxCycles - MaxPlotCycles
    /\ number_of_measurements = 1
    /\ calcQ = << >>
    /\ plotQ = << >>
    /\ published = << >>
    /\ calc_log = << >>
    /\ last_query = NoQuery
    /\ faulted = FALSE
    /\ run = NoRun
    /\ \E in \in { x \in SetupInputs : SetupAccepted(x) } :
         /\ in.status = StatusOf({1, 2, 3, 4})
         /\ last_setup = in
         /\ data = [DataInit EXCEPT !.configured = TRUE,
                                    !.mask_top = MaskTop(in),
                                    !.mask_bottom = MaskBottom(in),
                                    !.sent = in.coords, !.path = "set"]
         /\ calc = [pressure_array |-> DefaultPressureArray, seq |-> 0,
                    configured |-> TRUE,
                    mask_top |-> MaskTop(in), mask_bottom |-> MaskBottom(in),
                    sent |-> in.coords,
                    x_coordinates_top |-> Pick(in.coords, MaskTop(in)),
                    x_coordinates_bottom |-> Pick(in.coords, MaskBottom(in)),
                    lift |-> Lift(0)]
         /\ plot = [pressure_array |-> DefaultPressureArray,
                    density_array |-> << >>, seq |-> 0,
                    lift |-> Lift(0), lift_data_available |-> FALSE,
                    configured |-> TRUE,
                    mask_top |-> MaskTop(in), mask_bottom |-> MaskBottom(in),
                    sent |-> in.coords,
                    x_coordinates_top |-> Pick(in.coords, MaskTop(in)),
                    x_coordinates_bottom |-> Pick(in.coords, MaskBottom(in))]
    /\ \E checkbox_tuple \in CheckboxTuples, velocity \in Velocities :
         view = [ViewPlotted EXCEPT !.checkbox_tuple = checkbox_tuple,
                                 !.boxes = checkbox_tuple,
                                 !.velocity = velocity]

NextPlot ==
    \/ RdlWhile
    \/ RdlRead
    \/ RdlSend
    \/ RdlEmit
    \/ UpdateLift
    \/ CalcUpdateData
    \/ CalculateLiftAndSplines
    \/ PlotUpdateData
    \/ PlotUpdateLiftAndSplinesStep
    \/ PlotUpdateCheckboxTuple
    \/ SendCheckboxTuple
    \/ Animate

SpecPlot == InitPlot /\ [][NextPlot]_vars

(***************************************************************************)
(* The start of the program with any profile file of ProfileFiles.  The    *)
(* widgets and workers have the values that MainWindow.__init__ gives      *)
(* them; they exist once profile.workers is 3.                             *)
(***************************************************************************)
ProfileOthersUnchanged ==
    UNCHANGED << show_plot_button, save_data_button, plot_window_visible,
                 plot_init_flag, info_label, mainQ, x_coordinates,
                 user_actions, devices, demo_mode, pc, stop_flag, dataQ,
                 data, save, csv, cycles, number_of_measurements, calcQ,
                 calc, plotQ, plot, published, calc_log, last_query, faulted,
                 last_setup, run, view, csv_file >>

\* profile_data = ProfileData.readProfileData(filename_profile)
ReadProfile ==
    /\ profile.at = "start"
    /\ LET read == ReadProfileData(profile.lines)
       IN  profile' = [profile EXCEPT
                         !.read = read,
                         !.at = IF read.raised THEN "raised" ELSE "read"]
    /\ ProfileOthersUnchanged

\* if data_error_status: showWarning(...) else: MainWindow(DEFAULTS), whose
\* __init__ makes the three workers and starts their threads.
Main ==
    /\ profile.at = "read"
    /\ profile' = IF profile.read.data_error_status
                  THEN [profile EXCEPT !.at = "warning"]
                  ELSE [profile EXCEPT !.at = "main_window", !.workers = 3]
    /\ ProfileOthersUnchanged

InitProfile ==
    /\ InitMainWindow
    /\ demo_mode = FALSE
    /\ number_of_measurements = 1
    /\ pc = "idle"
    /\ data = DataInit
    /\ save = EmptySave
    /\ \E lines \in ProfileFiles :
         profile = [at |-> "start", lines |-> lines,
                    read |-> [raised |-> FALSE], workers |-> 0]

NextProfile ==
    \/ ReadProfile
    \/ Main

SpecProfile == InitProfile /\ [][NextProfile]_vars

(***************************************************************************)
(* Saves one after the other while the pipeline runs in demo mode: the     *)
(* plot window is shown, readDataLoop has just been entered, and the file  *)
(* at Data.path does not exist or is a log of this program with no line or *)
(* one line after the header; the user clicks "save" MaxSaves times.       *)
(***************************************************************************)
\* clicks on the save button
MaxSaves == 3

\* The line of a log that an earlier session has written last, with the
\* masks of the configuration `in` and readings of zero.
OldRow(in) ==
    FileRow(<< "now_time" >> \o [i \in 1..SHAPE_DENSITY |-> 0]
            \o << "angle", "velocity", << Lift(0) >>, "width", 1,
                  "total_time_measurements" >>
            \o DefaultPressureArray \o in.coords
            \o << MaskString(MaskTop(in)), MaskString(MaskBottom(in)) >>,
            << >>)

\* The plot window is shown, the three workers hold a configuration of
\* SetupInputs and readDataLoop has just been entered in demo mode; the
\* user has `clicks` actions left.
InitPipeline(clicks) ==
    /\ show_plot_button = TRUE
    /\ save_data_button = TRUE
    /\ plot_window_visible = TRUE
    /\ plot_init_flag = TRUE
    /\ info_label = "initial"
    /\ mainQ = << >>
    /\ x_coordinates = CoordsDefault
    /\ user_actions = MaxUserActions - clicks
    /\ devices = << >>
    /\ demo_mode = TRUE
    /\ pc = "rdl_while"
    /\ stop_flag = FALSE
    /\ dataQ = << >>
    /\ save = EmptySave
    /\ cycles = 0
    /\ number_of_measurements = 1
    /\ calcQ = << >>
    /\ plotQ = << >>
    /\ published = << >>
    /\ calc_log = << >>
    /\ last_query = NoQuery
    /\ faulted = FALSE
    /\ run = NoRun
    /\ view = ViewPlotted
    /\ \E in \in { x \in SetupInputs : SetupAccepted(x) } :
         /\ last_setup = in
         /\ data = [DataInit EXCEPT !.configured = TRUE,
                                    !.mask_top = MaskTop(in),
                                    !.mask_bottom = MaskBottom(in),
                                    !.sent = in.coords, !.path = "set"]
         /\ calc = [pressure_array |-> DefaultPressureArray, seq |-> 0,
                    configured |-> TRUE,
                    mask_top |-> MaskTop(in), mask_bottom |-> MaskBottom(in),
                    sent |-> in.coords,
                    x_coordinates_top |-> Pick(in.coords, MaskTop(in)),
                    x_coordinates_bottom |-> Pick(in.coords, MaskBottom(in)),
                    lift |-> Lift(0)]
         /\ plot = [pressure_array |-> DefaultPressureArray,
                    density_array |-> << >>, seq |-> 0,
                    lift |-> Lift(0), lift_data_available |-> FALSE,
                    configured |-> TRUE,
                    mask_top |-> MaskTop(in), mask_bottom |-> MaskBottom(in),
                    sent |-> in.coords,
                    x_coordinates_top |-> Pick(in.coords, MaskTop(in)),
                    x_coordinates_bottom |-> Pick(in.coords, MaskBottom(in))]

InitSave ==
    /\ InitPipeline(MaxSaves)
    /\ profile = ProfileDefault
    /\ \/ csv_file = NoFile /\ csv = << >>
       \/ csv_file = LogFile /\ csv = << >>
       \/ csv_file = LogFile /\ csv = << OldRow(last_setup) >>

NextSave ==
    \/ SaveDataSignal
    \/ UpdateLift
    \/ RdlWhile
    \/ RdlRead
    \/ RdlSend
    \/ RdlEmit
    \/ SaveData
    \/ SaveFor
    \/ SaveRead
    \/ SaveSend
    \/ SaveStore
    \/ SaveWrite
    \/ SaveResume
    \/ CalcUpdateData
    \/ CalculateLiftAndSplines
    \/ PlotUpdateData
    \/ PlotUpdateLiftAndSplines
    \/ PlotUpdateInfoLabel

SpecSave == InitSave /\ [][NextSave]_vars

(***************************************************************************)
(* The calculations thread with a run of calculateLiftAndSplines that      *)
(* takes time: the run begins (KnotsExtend) and ends (KnotsLift) in two    *)
(* steps, while the data thread polls and takes the readings of a save and *)
(* emits calc_lift_splines_sig for each of them.                           *)
(***************************************************************************)
\* clicks on the save button while the runs are watched
MaxCalcSaves == 1

InitCalc ==
    /\ InitPipeline(MaxCalcSaves)
    /\ csv_file = NoFile
    /\ profile = ProfileDefault
    /\ csv = << >>

NextCalc ==
    \/ SaveDataSignal
    \/ UpdateLift
    \/ RdlWhile
    \/ RdlRead
    \/ RdlSend
    \/ RdlEmit
    \/ SaveData
    \/ SaveFor
    \/ SaveRead
    \/ SaveSend
    \/ SaveStore
    \/ SaveWrite
    \/ SaveResume
    \/ CalcUpdateData
    \/ KnotsExtend
    \/ KnotsLift
    \/ PlotUpdateData
    \/ PlotUpdateLiftAndSplines
    \/ PlotUpdateInfoLabel

SpecCalc == InitCalc /\ [][NextCalc]_vars

(***************************************************************************)
(* The running pipeline with a user who shows the plot, closes the plot    *)
(* window and clicks the save button, MaxSessionActions times in all.      *)
(***************************************************************************)
MaxSessionActions == 2

InitSession ==
    /\ InitPipeline(MaxSessionActions)
    /\ csv_file = NoFile
    /\ profile = ProfileDefault
    /\ csv = << >>

NextSession ==
    \/ ShowPlot
    \/ SaveDataSignal
    \/ ClosePlotWindow
    \/ UpdateLift
    \/ ReadDataLoop
    \/ RdlWhile
    \/ RdlRead
    \/ RdlSend
    \/ RdlEmit
    \/ SaveData
    \/ SaveFor
    \/ SaveRead
    \/ SaveSend
    \/ SaveStore
    \/ SaveWrite
    \/ SaveResume
    \/ CalcUpdateData
    \/ CalculateLiftAndSplines
    \/ PlotUpdateData
    \/ PlotUpdateLiftAndSplines
    \/ PlotUpdateInfoLabel

SpecSession == InitSession /\ [][NextSession]_vars

(***************************************************************************)
(* A second setup while the pipeline runs on real devices: the first setup *)
(* has succeeded, the plot window is shown and readDataLoop polls the      *)
(* first device pair; the user has MaxReconnectActions actions left.       *)
(***************************************************************************)
\* user actions after the first setup and show plot
MaxReconnectActions == 2
\* readData calls left
MaxReconnectCycles == 1

InitReconnect ==
    /\ show_plot_button = TRUE
    /\ save_data_button = TRUE
    /\ plot_window_visible = TRUE
    /\ plot_init_flag = TRUE
    /\ info_label = "initial"
    /\ mainQ = << >>
    /\ x_coordinates = CoordsDefault
    /\ user_actions = MaxUserActions - MaxReconnectActions
    /\ devices = << [pressure |-> "open", density |-> "open",
                     probed |-> TRUE] >>
    /\ demo_mode = FALSE
    /\ pc = "rdl_while"
    /\ stop_flag = FALSE
    /\ dataQ = << >>
    /\ save = EmptySave
    /\ csv = << >>
    /\ cycles = MaxCycles - MaxReconnectCycles
    /\ number_of_measurements = 1
    /\ calcQ = << >>
    /\ plotQ = << >>
    /\ published = << >>
    /\ calc_log = << >>
    /\ last_query = NoQuery
    /\ faulted = FALSE
    /\ run = NoRun
    /\ view = ViewPlotted
    /\ csv_file = NoFile
    /\ profile = ProfileDefault
    /\ \E in \in { x \in SetupInputs : SetupAccepted(x) } :
         /\ in.status = StatusOf({1, 2, 3, 4})
         /\ last_setup = in
         /\ data = [DataInit EXCEPT !.configured = TRUE,
                                    !.mask_top = MaskTop(in),
                                    !.mask_bottom = MaskBottom(in),
                                    !.sent = in.coords, !.path = "set",
                                    !.dev = 1]
         /\ calc = [pressure_array |-> DefaultPressureArray, seq |-> 0,
                    configured |-> TRUE,
                    mask_top |-> MaskTop(in), mask_bottom |-> MaskBottom(in),
                    sent |-> in.coords,
                    x_coordinates_top |-> Pick(in.coords, MaskTop(in)),
                    x_coordinates_bottom |-> Pick(in.coords, MaskBottom(in)),
                    lift |-> Lift(0)]
         /\ plot = [pressure_array |-> DefaultPressureArray,
                    density_array |-> << >>, seq |-> 0,
                    lift |-> Lift(0), lift_data_available |-> FALSE,
                    configured |-> TRUE,
                    mask_top |-> MaskTop(in), mask_bottom |-> MaskBottom(in),
                    sent |-> in.coords,
                    x_coordinates_top |-> Pick(in.coords, MaskTop(in)),
                    x_coordinates_bottom |-> Pick(in.coords, MaskBottom(in))]

SpecReconnect == InitReconnect /\ [][Next]_vars

(***************************************************************************)
(* Properties.                                                             *)
(***************************************************************************)
\* A start (readDataLoop) or a save (saveData) request waits in the queue
\* of the data thread.
StartOrSavePending ==
    \E k \in DOMAIN dataQ : dataQ[k].slot \in {"readDataLoop", "saveData"}

SavePcs == {"save_for", "save_read", "save_send", "save_store",
            "save_write", "save_resume"}

\* The number of times the Reading with sequence number seq was sent.
TimesPublished(seq) ==
    Cardinality({m \in DOMAIN published : published[m] = seq})

\* C1: Device.getNewData returns the parsed array only when the number of
\* parsed values equals the expected shape of the device; for every other
\* number of values, none included, it raises, and what it returns is the
\* parsed array itself, neither cut nor padded.
C1_GetNewDataShape ==
    last_query.which # "none" =>
        LET parsed == ParseLine(last_query.tokens)
            shape  == ExpectedShape(last_query.which)
        IN  /\ last_query.ok =>
                  /\ Len(parsed) = shape
                  /\ last_query.value = parsed
            /\ Len(parsed) # shape => ~last_query.ok

\* An empty (timed-out) line was answered to a query of the pressure
\* device, and the call raised.
C1_Witness ==
    /\ last_query.which = "pressure"
    /\ last_query.io_ok
    /\ last_query.tokens = << >>
    /\ ~last_query.ok

\* C2: once a stop is requested while the data thread is in readDataLoop
\* (or idle) and no start or save request waits, the thread finishes at
\* most the cycle it is in (read, send, emit), leaves the loop at its next
\* check of the flag, and reads and sends nothing more; the stop stays in
\* force until a start or save is requested.
C2_StopEndsLoop ==
    [][ (stop_flag /\ ~StartOrSavePending /\ pc \in LoopPcs \cup {"idle"}) =>
            /\ pc = "rdl_while" => pc' \in {"rdl_while", "idle"}
            /\ pc = "idle" => pc' = "idle"
            /\ pc = "rdl_read" => pc' \in {"rdl_read", "rdl_send", "idle"}
            /\ pc = "rdl_send" => pc' \in {"rdl_send", "rdl_emit"}
            /\ pc = "rdl_emit" => pc' \in {"rdl_emit", "rdl_while"}
            /\ cycles' # cycles => pc = "rdl_read"
            /\ published' # published => pc = "rdl_send"
            /\ stop_flag' \/ StartOrSavePending'
      ]_vars

\* The plot window was closed while the loop ran: the loop has ended after
\* having published, without a fault.
C2_Witness ==
    /\ stop_flag /\ ~StartOrSavePending
    /\ pc = "idle"
    /\ ~plot_window_visible
    /\ published # << >>
    /\ ~faulted

\* A cycle of readDataLoop whose readData raised.
FailedLoopCycle ==
    /\ pc = "rdl_read"
    /\ cycles' = cycles + 1
    /\ data'.seq = data.seq

\* C3: when readData fails in readDataLoop the loop ends, the failure
\* notice is sent to the info label, the show-plot and the save button are
\* told to disable, nothing is sent to the consumers and no calculation is
\* requested for that cycle; and when these requests are handled the label
\* shows the notice and both buttons are disabled.
C3_LoopFailureFaults ==
    [][ /\ FailedLoopCycle =>
              /\ pc' = "idle"
              /\ plotQ' = Append(plotQ, Ev("updateInfoLabel", "error"))
              /\ mainQ' = mainQ \o << Ev("switchPlotButton", FALSE),
                                      Ev("switchSaveButtonStatus", FALSE) >>
              /\ published' = published
              /\ calcQ' = calcQ
        /\ (mainQ # << >> /\ mainQ' = Tail(mainQ)) =>
              /\ Head(mainQ) = Ev("switchPlotButton", FALSE)
                    => ~show_plot_button'
              /\ Head(mainQ) = Ev("switchSaveButtonStatus", FALSE)
                    => ~save_data_button'
        /\ (plotQ # << >> /\ plotQ' = Tail(plotQ)
              /\ Head(plotQ) = Ev("updateInfoLabel", "error"))
              => info_label' = "error"
      ]_vars

\* The loop has failed and its notices have been handled.
C3_Witness ==
    /\ faulted
    /\ pc = "idle"
    /\ mainQ = << >>
    /\ info_label = "error"
    /\ ~show_plot_button
    /\ ~save_data_button

\* C4: after readDataLoop has failed the show-plot button is disabled in
\* every state until a setup enables it again.
C4_DisabledAfterFault == faulted => ~show_plot_button

\* C5: one acquisition cycle at a time: a device is read only at the read
\* of the loop or of the batch, a Reading is sent only at their send, the
\* batch of saveData starts only when the data thread runs nothing else,
\* and once started it runs to its end before the loop goes on.
C5_OneCycleAtATime ==
    [][ /\ cycles' # cycles => pc \in {"rdl_read", "save_read"}
        /\ published' # published => pc \in {"rdl_send", "save_send"}
        /\ (pc' \in SavePcs /\ pc \notin SavePcs) =>
                (pc = "idle" /\ pc' = "save_for")
        /\ pc \in SavePcs => pc' \in SavePcs \cup {"rdl_while"}
        /\ (pc \in SavePcs /\ pc' = "rdl_while") => pc = "save_resume"
      ]_vars

\* A cycle of a batch is under way after the loop has published.
C5_Witness ==
    /\ pc = "save_send"
    /\ published # << >>
    /\ data.seq > published[Len(published)]

\* The cells of a line of the log by the place of their columns.
IsRecord(row) == Len(row.cells) = NumColumns
DensityMean(row) == SubSeq(row.cells, 2, 1 + SHAPE_DENSITY)
LiftMean(row) == row.cells[1 + SHAPE_DENSITY + 3]
PressuresMean(row) ==
    SubSeq(row.cells, 1 + SHAPE_DENSITY + 6 + 1,
           1 + SHAPE_DENSITY + 6 + SHAPE_PRESSURE)

\* This step has put one more line into the log, a whole record.
RecordWritten ==
    /\ Len(csv') = Len(csv) + 1
    /\ IsRecord(csv'[Len(csv')])

\* C6: a saveData that writes its record has taken exactly n consecutive
\* readings, each of them sent to the consumers once, appends one record,
\* and then goes on with readDataLoop, the stop flag cleared.
C6_SaveTakesNReadings ==
    [][ /\ RecordWritten =>
              /\ pc = "save_write" /\ pc' = "save_resume"
              /\ \A r \in DOMAIN csv : csv'[r].batch = csv[r].batch
              /\ LET batch == csv'[Len(csv')].batch
                 IN  /\ Len(batch) = number_of_measurements
                     /\ \A k \in DOMAIN batch :
                            /\ batch[k] = cycles - number_of_measurements + k
                            /\ TimesPublished(batch[k]) = 1
        /\ pc = "save_resume" =>
              \/ pc' = "save_resume"
              \/ pc' = "rdl_while" /\ ~stop_flag'
      ]_vars

\* A record of a batch of more than one reading is written and the loop
\* is about to read again.
C6_Witness ==
    /\ csv # << >>
    /\ Len(csv[1].batch) > 1
    /\ pc = "rdl_read"
    /\ ~stop_flag

\* C7: the lift samples of a written record are the lifts calculated for
\* the readings of its batch: sample i is the lift of batch reading i.
C7_LiftOfBatchReadings ==
    \A r \in DOMAIN csv :
        IsRecord(csv[r]) =>
            \A k \in DOMAIN csv[r].batch :
                LiftMean(csv[r])[k] = Lift(csv[r].batch[k])

\* The distance of two numbers.
Dist(a, b) == IF a < b THEN b - a ELSE a - b

\* C8 as stated: when the n readings of a batch are identical, the written
\* pressures and environment values equal the values of that reading, for
\* every n >= 1.
C8_MeanOfIdentical ==
    csv # << >> =>
        /\ PressuresMean(csv[1]) = data.pressure_array
        /\ DensityMean(csv[1]) = data.density_array

\* mean is x, exactly for a batch of one or two readings and up to one unit
\* in the last place of the float for a larger batch.
EqualUpToRounding(mean, x) ==
    /\ number_of_measurements <= 2 => mean = x
    /\ Dist(mean, x) <= Ulp(x)

\* C8 amended: when the n readings of a batch are identical, the written
\* pressures and environment values equal the values of that reading for
\* n = 1 and n = 2, and differ from them by at most one unit in the last
\* place of the float for larger n.
C8_MeanOfIdenticalRounded ==
    csv # << >> =>
        /\ \A j \in 1..SHAPE_PRESSURE :
              EqualUpToRounding(PressuresMean(csv[1])[j],
                                data.pressure_array[j])
        /\ \A j \in 1..SHAPE_DENSITY :
              EqualUpToRounding(DensityMean(csv[1])[j],
                                data.density_array[j])

\* The record of a batch of two identical readings is written.
C8_Witness ==
    /\ csv # << >>
    /\ number_of_measurements = 2
    /\ save.num_pressures[1] = save.num_pressures[2]
    /\ PressuresMean(csv[1]) = data.pressure_array

\* C9: the calculation runs once for every Reading sent, on that Reading,
\* in the order they are sent: the Readings consumed by the runs so far
\* are the first of the Readings published so far.
C9_OneRunPerReading ==
    /\ Len(calc_log) <= Len(published)
    /\ \A k \in DOMAIN calc_log : calc_log[k] = published[k]

WholeConfiguration(worker) ==
    worker.configured =>
        /\ worker.x_coordinates_top = Pick(worker.sent, worker.mask_top)
        /\ worker.x_coordinates_bottom = Pick(worker.sent, worker.mask_bottom)

\* C11: a run of calculateLiftAndSplines, and the animation of the plot
\* once it is started, never work on masks of one setup together with tap
\* coordinates of another.
C11_NoMixedConfiguration ==
    [][ /\ calc_log' # calc_log => WholeConfiguration(calc)
        /\ plot_init_flag => WholeConfiguration(plot)
      ]_vars

\* An updateSetupData call waits in the queue of a worker thread.
SetupPending ==
    \/ \E k \in DOMAIN dataQ : dataQ[k].slot = "updateSetupData"
    \/ \E k \in DOMAIN calcQ : calcQ[k].slot = "updateSetupData"
    \/ \E k \in DOMAIN plotQ : plotQ[k].slot = "updateSetupData"

\* C12: while the show-plot button is enabled no worker has still to apply
\* a configuration, and while the data thread acquires, the three workers
\* hold the same masks and coordinates.
C12_AppliedBeforeAcknowledged ==
    /\ show_plot_button => ~SetupPending
    /\ pc \in LoopPcs \cup SavePcs =>
          /\ data.mask_top = calc.mask_top /\ calc.mask_top = plot.mask_top
          /\ data.mask_bottom = calc.mask_bottom
          /\ calc.mask_bottom = plot.mask_bottom
          /\ data.sent = calc.sent /\ calc.sent = plot.sent

\* The taps a setup input enables on the top and on the bottom surface.
ActiveTop(in) == {i \in Taps : in.status[i] /\ in.color[i]}

ActiveBottom(in) == {i \in Taps : in.status[i] /\ ~in.color[i]}

\* Each surface has at least 2 enabled taps and no two enabled taps of a
\* surface have the same coordinate.
ValidSetup(in) ==
    /\ Cardinality(ActiveTop(in)) >= 2
    /\ Cardinality(ActiveBottom(in)) >= 2
    /\ \A i, j \in ActiveTop(in) : i # j => in.coords[i] # in.coords[j]
    /\ \A i, j \in ActiveBottom(in) : i # j => in.coords[i] # in.coords[j]

\* The configurations that a step has newly queued to a worker.
NewSetupData(q, qn) ==
    { qn[k].arg : k \in { m \in DOMAIN qn :
                            m > Len(q) /\ qn[m].slot = "updateSetupData" } }

\* C13: a setUp sends a configuration to the three workers exactly when each
\* surface has at least 2 enabled taps and no surface has two enabled taps
\* with the same coordinate; otherwise it sends nothing to any worker and
\* the show-plot button is disabled.
C13_BroadcastIffValid ==
    [][ last_setup' # last_setup =>
            IF ValidSetup(last_setup')
            THEN /\ NewSetupData(plotQ, plotQ') # {}
                 /\ NewSetupData(calcQ, calcQ') # {}
                 /\ NewSetupData(dataQ, dataQ') # {}
            ELSE /\ plotQ' = plotQ /\ calcQ' = calcQ /\ dataQ' = dataQ
                 /\ ~show_plot_button'
      ]_vars

\* A setup was accepted and has enabled the show-plot button, and the next
\* one, with enough taps on both surfaces but a duplicate coordinate on
\* the top surface, has sent nothing more and has disabled the button.
C13_Witness ==
    /\ last_setup # NoSetup
    /\ Cardinality(ActiveTop(last_setup)) >= 2
    /\ Cardinality(ActiveBottom(last_setup)) >= 2
    /\ \E i, j \in ActiveTop(last_setup) :
           i # j /\ last_setup.coords[i] = last_setup.coords[j]
    /\ Len(plotQ) = 1 /\ Len(calcQ) = 1
    /\ ~show_plot_button

\* C15: in every configuration that setUp sends, no tap is in both masks
\* and the taps of the two masks together are the enabled taps.
C15_MasksPartitionEnabled ==
    [][ last_setup' # last_setup =>
            \A cfg \in NewSetupData(plotQ, plotQ')
                       \cup NewSetupData(calcQ, calcQ')
                       \cup NewSetupData(dataQ, dataQ') :
                \A i \in Taps :
                    /\ ~(cfg.mask_top[i] /\ cfg.mask_bottom[i])
                    /\ (cfg.mask_top[i] \/ cfg.mask_bottom[i])
                           <=> last_setup'.status[i]
      ]_vars

\* A configuration was sent for an input in which one of the first taps is
\* disabled, disabled taps have the surface box checked and unchecked, and
\* the surface boxes are not the default ones.
C15_Witness ==
    /\ plotQ # << >>
    /\ plotQ[1].slot = "updateSetupData"
    /\ last_setup # NoSetup
    /\ \E i \in SetupTaps : ~last_setup.status[i]
    /\ \E i, j \in Taps :
          /\ ~last_setup.status[i] /\ last_setup.color[i]
          /\ ~last_setup.status[j] /\ ~last_setup.color[j]
    /\ \E i \in SetupTaps : last_setup.color[i] # ColorCode[i]
    /\ plotQ[1].arg.mask_top = MaskTop(last_setup)

\* C14: a setUp that validation rejects leaves the workers as they are:
\* nothing is queued to them, their masks and per-surface coordinates stay,
\* and the coordinate array that the Data worker holds, and writes to the
\* record, keeps its values.
C14_RejectedSetupChangesNothing ==
    [][ (last_setup' # last_setup /\ ~ValidSetup(last_setup')) =>
            /\ dataQ' = dataQ /\ calcQ' = calcQ /\ plotQ' = plotQ
            /\ data' = data /\ calc' = calc /\ plot' = plot
            /\ csv' = csv
            /\ data.configured => x_coordinates' = x_coordinates
      ]_vars

\* The enabled taps of a surface in ascending order of the coordinate.
SortedTop == SortKnots(calc.x_coordinates_top,
                       Pick(calc.pressure_array, calc.mask_top))

SortedBottom == SortKnots(calc.x_coordinates_bottom,
                          Pick(calc.pressure_array, calc.mask_bottom))

\* p[-2] + (p[-1] - p[-2]) / (x[-1] - x[-2]) * (1 - x[-2]) on the knots in
\* ascending order of the coordinate
LinearExtrapolation(sorted) ==
    Frac(Last2(sorted.p) * (Last(sorted.x) - Last2(sorted.x))
            + (Last(sorted.p) - Last2(sorted.p)) * (CHORD - Last2(sorted.x)),
         Last(sorted.x) - Last2(sorted.x))

\* The knots end with the point at coordinate 1 that continues the line
\* through the last two taps.
ExtrapolatedTo1(knots, sorted) ==
    Last(sorted.x) < TRAILING_EDGE =>
        /\ Last(knots.x) = CHORD
        /\ Last(knots.p) = LinearExtrapolation(sorted)

RunHasKnots == run.at \in {"extended", "sent"}

\* C16: on each surface whose largest enabled coordinate is below 0.99 the
\* boundary extension appends the point at coordinate 1 with the pressure
\* p[-2] + (p[-1]-p[-2])/(x[-1]-x[-2])*(1-x[-2]) of the last two knots in
\* ascending order of the coordinate.
C16_TrailingEdgeExtrapolation ==
    RunHasKnots =>
        /\ ExtrapolatedTo1(run.top, SortedTop)
        /\ ExtrapolatedTo1(run.bottom, SortedBottom)

\* C17: when the enabled taps of the top and of the bottom surface have the
\* same coordinates and pressures, the pressure of the point appended at
\* coordinate 1 is the same on both surfaces.
C17_SameExtrapolationBothSurfaces ==
    (/\ RunHasKnots
     /\ calc.x_coordinates_top = calc.x_coordinates_bottom
     /\ Pick(calc.pressure_array, calc.mask_top)
            = Pick(calc.pressure_array, calc.mask_bottom)
     /\ Last(SortedTop.x) < TRAILING_EDGE)
        => Last(run.top.p) = Last(run.bottom.p)

\* The knots of a surface begin with (0, 0) followed by the taps when the
\* smallest enabled coordinate is above 0.00001, and with the taps
\* themselves otherwise.
LeadingEdgeAsClaimed(knots, sorted) ==
    LET appended == IF Last(sorted.x) < TRAILING_EDGE THEN 1 ELSE 0
        n == Len(sorted.x)
    IN  IF sorted.x[1] > LEADING_EDGE
        THEN /\ Len(knots.x) = n + appended + 1
             /\ knots.x[1] = 0 /\ knots.p[1] = Zero
             /\ \A k \in 1..n : /\ knots.x[k + 1] = sorted.x[k]
                                /\ knots.p[k + 1] = Frac(sorted.p[k], 1)
        ELSE /\ Len(knots.x) = n + appended
             /\ \A k \in 1..n : /\ knots.x[k] = sorted.x[k]
                                /\ knots.p[k] = Frac(sorted.p[k], 1)

\* C18: on each surface the point (0, 0) is prepended exactly when the
\* smallest enabled coordinate is greater than 0.00001; otherwise the
\* knots begin with the taps as they are.
C18_LeadingEdgeAnchor ==
    RunHasKnots =>
        /\ LeadingEdgeAsClaimed(run.top, SortedTop)
        /\ LeadingEdgeAsClaimed(run.bottom, SortedBottom)

\* The run is over; the first tap of the top surface is at 0.00001, where
\* nothing is prepended, and the first tap of the bottom surface at
\* 0.00002, where (0, 0) is.
C18_Witness ==
    /\ run.at = "sent"
    /\ SortedTop.x[1] = LEADING_EDGE
    /\ run.top.x[1] = LEADING_EDGE
    /\ SortedBottom.x[1] = LEADING_EDGE + 1
    /\ run.bottom.x[1] = 0 /\ run.bottom.p[1] = Zero
    /\ run.bottom.x[2] = LEADING_EDGE + 1

\* C19: after the boundary extension the knots of each surface begin at
\* coordinate 0 and end at coordinate 1, so that every point of the
\* interpolation grid lies within them.
C19_KnotsCoverChord ==
    RunHasKnots =>
        /\ run.top.x[1] = 0 /\ Last(run.top.x) = CHORD
        /\ run.bottom.x[1] = 0 /\ Last(run.bottom.x) = CHORD
        /\ \A k \in DOMAIN XGridInterpolation :
              /\ run.top.x[1] <= XGridInterpolation[k]
              /\ XGridInterpolation[k] <= Last(run.top.x)
              /\ run.bottom.x[1] <= XGridInterpolation[k]
              /\ XGridInterpolation[k] <= Last(run.bottom.x)

\* C20: when the pressure at every enabled tap is 0, the lift that the
\* calculation sends is 0.
C20_ZeroPressureZeroLift ==
    (/\ run.at = "sent"
     /\ \A i \in Taps : (calc.mask_top[i] \/ calc.mask_bottom[i])
                            => calc.pressure_array[i] = 0)
        => /\ plotQ # << >>
           /\ Last(plotQ).slot = "updateLiftAndSplines"
           /\ Last(plotQ).arg.value = 0

(***************************************************************************)
(* The presentation (SpecPlot).                                            *)
(***************************************************************************)
\* The spline or the wing overlay holds data.
OverlayDrawn == view.line_spline # NoData \/ view.line_wing # "none"

\* C21: while no valid CalculationResult has been received
\* (lift_data_available is false), no call of animate has handed data to
\* the spline or the wing lines, whatever the check boxes are.  (The flag is
\* never set back, so the overlays found while it is false were drawn
\* while it was false.)
C21_NoOverlayBeforeResult ==
    ~plot.lift_data_available => ~OverlayDrawn

\* C22: after a call of animate in a mode that is not paused, the markers,
\* the environment LCDs and the lift LCDs show the Reading and the
\* CalculationResult that Plot held when animate was called.
C22_TickRefreshesDisplay ==
    view.mode \in {"pressures", "cp"} =>
        /\ view.line_pressures.of = view.seen.seq
        /\ view.lcd.seq = view.seen.seq
        /\ view.lcd.lift.of = view.seen.lift

\* C23: after a call of animate in the cp mode, the markers, the splines
\* (when drawn) and the lift readout are the values of the latest Reading
\* and CalculationResult divided by 0.5 * velocity^2 * density, the
\* denominator of that call.
C23_CoefficientViewDivides ==
    view.mode = "cp" =>
        /\ view.line_pressures = Shown(view.seen.seq, view.seen.denominator_cp)
        /\ view.line_spline # NoData =>
               view.line_spline.by = view.seen.denominator_cp
        /\ view.lcd.lift = Shown(view.seen.lift, view.seen.denominator_cp)

\* The curves and the readouts.
Displayed(v) == << v.line_pressures, v.line_spline, v.line_wing, v.lcd >>

\* C24: no step taken while the display mode is Paused, a call of animate
\* included, changes a displayed curve or readout; and a step that enters
\* or leaves Paused changes nothing of the data thread, the stop flag and
\* the calculation thread.
C24_PausedFreezesDisplayOnly ==
    [][ /\ view.checkbox_tuple.pause => Displayed(view') = Displayed(view)
        /\ view'.checkbox_tuple.pause # view.checkbox_tuple.pause =>
               UNCHANGED << pc, stop_flag, dataQ, data, cycles, published,
                            calcQ, calc, calc_log >> ]_vars

\* Paused, animate has been called in this mode, and the display is that of
\* an earlier Reading than the one Plot holds: the data thread has
\* published during the pause.
C24_Witness ==
    /\ view.checkbox_tuple.pause
    /\ view.mode = "pause"
    /\ view.line_pressures # NoData
    /\ view.line_pressures.of < plot.seq
    /\ view.lcd.seq < plot.seq

(***************************************************************************)
(* Setup on devices that do not answer (SpecReconnect).                    *)
(***************************************************************************)
\* The Data worker holds a device pair that failed the probe query of its
\* setup.
HoldsFailedPair == data.dev # 0 /\ ~devices[data.dev].probed

\* A step of setUp that broadcasts a configuration.
SetupBroadcast ==
    /\ Len(calcQ') = Len(calcQ) + 1
    /\ calcQ'[Len(calcQ')].slot = "updateSetupData"

\* The same for the state after a step.
HoldsFailedPairNext == data'.dev # 0 /\ ~devices'[data'.dev].probed

\* C25: not in demo mode, a setup whose devices cannot be opened or do not
\* answer the probe query ends with the show-plot button disabled, and no
\* step takes or leaves the data thread in its polling loop or in a save
\* with a device pair that failed the probe query of its setup.
C25_FailedConnectionBlocksRunning ==
    [][ /\ (/\ SetupBroadcast
            /\ ~demo_mode
            /\ \/ devices' = devices
               \/ ~devices'[Len(devices')].probed) => ~show_plot_button'
        /\ pc' \in LoopPcs \cup SavePcs => ~HoldsFailedPairNext ]_vars

\* This step is a saveData that reports "Data saved".
SaveSucceeds ==
    /\ pc = "save_write"
    /\ plotQ' = Append(plotQ, Ev("updateInfoLabel", "saved"))

\* C26: a successful save to a path with no file leaves a file with the
\* header and one record; a successful save to a log with N lines after
\* the header leaves N + 1 lines, the last of them a whole record, and the
\* header as it was.
C26_SaveAddsOneRow ==
    [][ SaveSucceeds =>
          /\ IsRecord(csv'[Len(csv')])
          /\ IF csv_file.is_file
             THEN /\ Len(csv') = Len(csv) + 1
                  /\ csv_file' = csv_file
             ELSE /\ Len(csv') = 1
                  /\ csv_file' = LogFile
      ]_vars

\* Three saves one after the other have succeeded on a log of one line.
C26_Witness ==
    /\ csv_file = LogFile
    /\ Len(csv) = MaxSaves + 1
    /\ \A r \in DOMAIN csv : IsRecord(csv[r])
    /\ \A r \in 2..Len(csv) : csv[r].batch # << >>

\* text is a mask string: one character per tap, each "0" or "1".
IsMaskString(text) ==
    /\ Len(text) = SHAPE_PRESSURE
    /\ \A i \in DOMAIN text : text[i] \in {"0", "1"}

\* The two mask cells of a whole record.
MaskTopStr(row) == row.cells[NumColumns - 1]
MaskBottomStr(row) == row.cells[NumColumns]

\* Every line of the log is a whole record with two mask strings.
LogOfRecords(rows) ==
    \A r \in DOMAIN rows :
        /\ IsRecord(rows[r])
        /\ IsMaskString(MaskTopStr(rows[r]))
        /\ IsMaskString(MaskBottomStr(rows[r]))

\* C27: a successful save to a log of whole records leaves every line
\* that was in the log as it was, cell by cell, and the log is again one
\* of whole records whose two mask cells are strings of 16 characters "0"
\* or "1".
C27_AppendKeepsOldRows ==
    [][ SaveSucceeds /\ LogOfRecords(csv) =>
          /\ \A r \in DOMAIN csv : csv'[r].cells = csv[r].cells
          /\ LogOfRecords(csv')
      ]_vars

\* The cells first..last of a line.
Cells(row, first, last) == SubSeq(row.cells, first, last)

\* text has one character per tap, "1" where the tap is in the mask and
\* "0" where it is not.
MaskStringOf(text, mask) ==
    /\ Len(text) = SHAPE_PRESSURE
    /\ \A i \in Taps : text[i] = IF mask[i] THEN "1" ELSE "0"

\* C28: the record that a successful save appends has, from left to
\* right, the timestamp, the 4 environment means, the angle, the velocity,
\* the mean lift, the width, the sample count, the elapsed time, the 16
\* mean pressures, the coordinates of all 16 taps, the top mask string and
\* the bottom mask string, each mask string with one character per tap.
C28_RecordFieldOrder ==
    [][ SaveSucceeds =>
          LET row == csv'[Len(csv')]
              env == 1 + SHAPE_DENSITY
              add == env + 6
              prs == add + SHAPE_PRESSURE
              crd == prs + SHAPE_PRESSURE
          IN  /\ Len(row.cells) = crd + 2
              /\ row.cells[1] = "now_time"
              /\ Cells(row, 2, env)
                    = MeanAxis0(save.num_density, SHAPE_DENSITY)
              /\ row.cells[env + 1] = "angle"
              /\ row.cells[env + 2] = "velocity"
              /\ row.cells[env + 3] = save.num_lift
              /\ row.cells[env + 4] = "width"
              /\ row.cells[env + 5] = number_of_measurements
              /\ row.cells[env + 6] = "total_time_measurements"
              /\ Cells(row, add + 1, prs)
                    = MeanAxis0(save.num_pressures, SHAPE_PRESSURE)
              /\ Cells(row, prs + 1, crd) = x_coordinates
              /\ Len(x_coordinates) = SHAPE_PRESSURE
              /\ MaskStringOf(row.cells[crd + 1], data.mask_top)
              /\ MaskStringOf(row.cells[crd + 2], data.mask_bottom)
      ]_vars

\* A record with taps in and taps not in both masks has been appended to
\* a log that had a line, and the plot window says so.
C28_Witness ==
    /\ Len(csv) >= 2
    /\ IsRecord(csv[Len(csv)])
    /\ csv[Len(csv)].batch # << >>
    /\ info_label = "saved"
    /\ \E i, j \in Taps : data.mask_top[i] /\ ~data.mask_top[j]
    /\ \E i, j \in Taps : data.mask_bottom[i] /\ ~data.mask_bottom[j]

\* This step is a saveData whose write has raised.
SaveFails ==
    /\ pc = "save_write"
    /\ pc' # pc
    /\ ~SaveSucceeds

\* C29: a saveData whose write raises reports the error to the info
\* label, leaves no line in a log of whole records that is not a whole
\* record, and goes on to self.readDataLoop(), which starts the polling
\* loop with the stop flag cleared whatever the write has done.
C29_WriteFailureReported ==
    [][ /\ SaveFails =>
              /\ plotQ' = Append(plotQ, Ev("updateInfoLabel", "save_error"))
              /\ (\A r \in DOMAIN csv : IsRecord(csv[r])) =>
                    (\A r \in DOMAIN csv' : IsRecord(csv'[r]))
              /\ pc' = "save_resume"
        /\ SaveSucceeds => pc' = "save_resume"
        /\ pc = "save_resume" /\ pc' # pc =>
              /\ pc' = "rdl_while"
              /\ ~stop_flag'
              /\ save' = EmptySave
      ]_vars

\* C30: at most one run of calculateLiftAndSplines is in progress at any
\* time: a run begins only when no run is in progress, and a
\* calc_lift_splines_sig emitted during a run is queued and leaves the run
\* as it is.
C30_OneRunAtATime ==
    [][ /\ run.active <= 1
        /\ run'.active <= 1
        /\ run'.active > run.active => run.active = 0
        /\ (/\ run.active = 1
            /\ Len(calcQ') > Len(calcQ)
            /\ calcQ'[Len(calcQ')].slot = "calculateLiftAndSplines")
              => run' = run
      ]_vars

\* A run is in progress, the next calc_lift_splines_sig is already in the
\* queue of the calculations thread, and a run has ended before.
C30_Witness ==
    /\ run.active = 1
    /\ calcQ # << >>
    /\ Head(calcQ).slot = "calculateLiftAndSplines"
    /\ calc_log # << >>

\* C31: the main window and its three workers exist only if the x values
\* of the top and of the bottom curve that readProfileData has made of the
\* file are both strictly increasing; if they are not, the program shows
\* the warning and makes no worker.
C31_PipelineNeedsIncreasingProfile ==
    /\ profile.workers > 0 =>
          /\ profile.at = "main_window"
          /\ \A i \in 1..(Len(profile.read.x_top) - 1) :
                 FloatLess(profile.read.x_top[i], profile.read.x_top[i + 1])
          /\ \A i \in 1..(Len(profile.read.x_bottom) - 1) :
                 FloatLess(profile.read.x_bottom[i],
                           profile.read.x_bottom[i + 1])
    /\ profile.at \in {"main_window", "warning"} =>
          (profile.at = "warning" <=>
             \/ \E i \in 1..(Len(profile.read.x_top) - 1) :
                   ~FloatLess(profile.read.x_top[i],
                              profile.read.x_top[i + 1])
             \/ \E i \in 1..(Len(profile.read.x_bottom) - 1) :
                   ~FloatLess(profile.read.x_bottom[i],
                              profile.read.x_bottom[i + 1]))
    /\ profile.at = "warning" => profile.workers = 0

\* The warning is shown for a profile of the Lednicer format whose top
\* curve has the same x twice and whose bottom curve is increasing.
C31_Witness ==
    /\ profile.at = "warning"
    /\ profile.workers = 0
    /\ Len(profile.read.x_top) = 2
    /\ profile.read.x_top[1] = profile.read.x_top[2]
    /\ Len(profile.read.x_bottom) = 1

\* The Readings among the events of a queue belong to one readData call:
\* that call has obtained both of their arrays.
ReadingsWhole(q) ==
    \A k \in DOMAIN q :
        q[k].slot = "updateData" =>
            /\ q[k].arg.pressure_of = q[k].arg.seq
            /\ q[k].arg.density_of = q[k].arg.seq

\* C32: a pass of the loop of readDataLoop calls readData once, which
\* queries the pressure device and then the density device, then sends one
\* Reading with the two arrays of that call to the plot and to the
\* calculation, then emits calc_lift_splines_sig once; no Reading that is
\* sent holds an array of an earlier call.
C32_IterationOrder ==
    [][ /\ pc = "rdl_read" /\ pc' # pc =>
              /\ pc' \in {"rdl_send", "idle"}
              /\ cycles' = cycles + 1
              /\ UNCHANGED << published, calcQ >>
              /\ ~demo_mode /\ data.dev # 0 =>
                    data'.queries \in {<< "pressure" >>,
                                       << "pressure", "density" >>}
              /\ pc' = "rdl_send" =>
                    /\ ~demo_mode =>
                          data'.queries = << "pressure", "density" >>
                    /\ data'.pressure_of = cycles'
                    /\ data'.density_of = cycles'
        /\ pc = "rdl_send" /\ pc' # pc =>
              LET reading == Reading(cycles, data.pressure_array,
                                     data.density_array, cycles, cycles)
              IN  /\ pc' = "rdl_emit"
                  /\ plotQ' = Append(plotQ, Ev("updateData", reading))
                  /\ calcQ' = Append(calcQ, Ev("updateData", reading))
                  /\ published' = Append(published, cycles)
                  /\ UNCHANGED << cycles, data >>
        /\ pc = "rdl_emit" /\ pc' # pc =>
              /\ pc' = "rdl_while"
              /\ calcQ' = Append(calcQ, Ev("calculateLiftAndSplines", NoArg))
              /\ UNCHANGED << cycles, data, published, plotQ >>
        /\ ReadingsWhole(plotQ')
        /\ ReadingsWhole(calcQ')
      ]_vars

\* The loop has sent a Reading of the devices after a readData call that
\* raised, and is about to signal the calculation.
C32_Witness ==
    /\ ~demo_mode
    /\ pc = "rdl_emit"
    /\ data.queries = << "pressure", "density" >>
    /\ published # << >>
    /\ published[Len(published)] = cycles
    /\ cycles > Len(published)

\* The readData call of a batch of saveData has raised: the data thread
\* is past the except clause of saveData and the batch is not complete.
BatchReadFailed ==
    /\ pc = "save_resume"
    /\ save.i < number_of_measurements

\* C33: a readData call that raises while saveData takes its readings
\* appends no record, and it ends the work of the data thread as the
\* except clause of readDataLoop does: the thread becomes idle and the
\* show-plot button and the save button are switched off.
C33_BatchReadFailureIsFatal ==
    [][ /\ pc = "save_read" /\ pc' = "save_resume" => csv' = csv
        /\ BatchReadFailed /\ pc' # pc =>
              /\ csv' = csv
              /\ pc' = "idle"
              /\ mainQ' = mainQ \o << Ev("switchPlotButton", FALSE),
                                      Ev("switchSaveButtonStatus", FALSE) >>
      ]_vars

\* The number of places of the arrays x and p that hold the pair (a, b).
CountPair(x, p, a, b) ==
    Cardinality({i \in DOMAIN x : x[i] = a /\ p[i] = b})

\* sorted holds the pairs of the coordinates x and the pressures p of the
\* taps of a surface, each as often as the taps have it, in ascending
\* order of the coordinate.
SortedPairs(sorted, x, p) ==
    /\ Len(sorted.x) = Len(x)
    /\ Len(sorted.p) = Len(x)
    /\ \A i \in 1..(Len(x) - 1) : sorted.x[i] <= sorted.x[i + 1]
    /\ \A i \in DOMAIN x :
          CountPair(sorted.x, sorted.p, x[i], p[i]) = CountPair(x, p, x[i], p[i])

\* C34: the sort of calculateLiftAndSplines gives, for each surface, the
\* (coordinate, pressure) pairs of its selected taps in ascending order
\* of the coordinate: every pair of a tap is there as often as before,
\* none is lost or made up.
C34_SortKeepsPairs ==
    run.at \in {"extended", "sent"} =>
        /\ SortedPairs(run.sorted_top, calc.x_coordinates_top,
                       Pick(calc.pressure_array, calc.mask_top))
        /\ SortedPairs(run.sorted_bottom, calc.x_coordinates_bottom,
                       Pick(calc.pressure_array, calc.mask_bottom))

\* The taps of the top surface were not in the order of their
\* coordinates and had different pressures, and the sort has run.
C34_Witness ==
    /\ run.at = "extended"
    /\ \E i \in 1..(Len(calc.x_coordinates_top) - 1) :
          calc.x_coordinates_top[i] > calc.x_coordinates_top[i + 1]
    /\ run.sorted_top.p # Pick(calc.pressure_array, calc.mask_top)

\* The view that the claim gives to a tuple of the check boxes.
DisplayMode(checkbox_tuple) ==
    IF checkbox_tuple.pause THEN "pause"
    ELSE IF checkbox_tuple.cp THEN "cp"
    ELSE "pressures"

\* C35: every one of the 8 values of (pause, line, cp) has exactly one
\* plot method, and a call of animate runs it: plotPause whenever pause
\* is set, otherwise plotCp with cp set and plotPressures without; the
\* line check box never changes the method, it decides only whether the
\* splines are drawn.
C35_DispatchTotal ==
    [][Animate =>
          /\ DOMAIN plot_options_dict = CheckboxTuples
          /\ view'.mode = DisplayMode(view.checkbox_tuple)
          /\ PlotOptionsDictGet([view.checkbox_tuple EXCEPT !.line = ~@])
                = PlotOptionsDictGet(view.checkbox_tuple)
          /\ ~view.checkbox_tuple.pause /\ ~view.checkbox_tuple.line
                => view'.line_spline = NoData
      ]_vars

\* animate has drawn the coefficients with the line check box set.
C35_Witness ==
    /\ view.mode = "cp"
    /\ view.checkbox_tuple = CheckboxTuple(FALSE, TRUE, TRUE)
    /\ view.line_pressures # NoData

ResultArraysHave(result, n) ==
    /\ Len(result.spline_top) = n
    /\ Len(result.spline_bottom) = n
    /\ Len(result.x_grid_interpolation) = n
    /\ Len(result.y_wing_top) = n
    /\ Len(result.y_wing_bottom) = n
    /\ Len(result.x_wing_interpolation_top) = n
    /\ Len(result.x_wing_interpolation_bottom) = n

\* C37: in every result that calculateLiftAndSplines sends, the two
\* splines, the interpolation grid and the four arrays of the wing have
\* number_of_interpolated_points entries; the arrays of the panels that
\* the lift is summed over have one entry less, and panel k is multiplied
\* with sample k of the spline counted from 0, which is sample k + 1
\* counted from 1.
C37_ResultShapes ==
    /\ \A k \in DOMAIN plotQ :
          plotQ[k].slot = "updateLiftAndSplines"
              => ResultArraysHave(plotQ[k].arg, NumInterpolPoints)
    /\ \A k \in DOMAIN mainQ :
          mainQ[k].slot = "updateLift"
              => ResultArraysHave(mainQ[k].arg, NumInterpolPoints)
    /\ run.at = "sent" =>
          /\ \A panels \in {run.delta_x_top, run.delta_x_bottom,
                             run.delta_y_top, run.delta_y_bottom} :
                Len(panels) = NumInterpolPoints - 1
          /\ \A samples \in {run.samples_top, run.samples_bottom} :
                /\ Len(samples) = NumInterpolPoints - 1
                /\ \A k \in DOMAIN samples : samples[k] = k + 1

\* A result has been sent to the plot.
C37_Witness ==
    /\ run.at = "sent"
    /\ plotQ # << >>
    /\ Last(plotQ).slot = "updateLiftAndSplines"
    /\ Len(Last(plotQ).arg.spline_top) = NumInterpolPoints

\* C38: a stop that comes while saveData is taking the measurements of a
\* batch (the plot window is closed) is not lost: when saveData is done
\* and no start is waiting, readDataLoop does not go on polling.
C38_StopDuringBatchKept ==
    [][ /\ pc = "save_resume"
        /\ pc' # pc
        /\ save.stopped
        /\ \A k \in DOMAIN dataQ : dataQ[k].slot # "readDataLoop"
        => pc' = "idle" \/ stop_flag'
      ]_vars

\* C39: a start that is asked for while readDataLoop is polling has no
\* effect: when the data thread comes to it later, after the loop has
\* been stopped, it does not start the loop again.
C39_StartWhileRunningIgnored ==
    [][ /\ pc = "idle"
        /\ dataQ # << >>
        /\ Head(dataQ) = Ev("readDataLoop", WhileRunning)
        /\ dataQ' = Tail(dataQ)
        => pc' = "idle" /\ stop_flag' = stop_flag
      ]_vars

\* A call of saveData waits in the event queue of the data thread.
SavePending == \E k \in DOMAIN dataQ : dataQ[k].slot = "saveData"

\* C40: every click on the save button leads to its record without
\* another action of the user, also a click that comes while the batch
\* of an earlier click is taken: the request never waits behind a
\* readDataLoop that polls with the stop flag cleared, which only a fault
\* or the user can end.
C40_SaveNeverStranded ==
    ~(SavePending /\ pc \in LoopPcs /\ ~stop_flag)

====
